---- MODULE Spec2Model ----
(***************************************************************************)
(* The session message pump of letta-code-sdk: Session (initialize, send,  *)
(* stream, abort, close, the ingestion pump, the bounded delivery queue    *)
(* and the approval barrier) together with the SubprocessTransport it      *)
(* drives.  JavaScript runs one continuation at a time, so every action    *)
(* below is one synchronous run of code between two suspension points.     *)
(***************************************************************************)
EXTENDS Integers, Sequences, FiniteSets, TLC

\* ---------------------------------------------------------------- bounds
\* Number of frames the child process emits in one behaviour of the
\* permission barrier scenario.
MaxBarrierFrames == 2
\* Number of frames the child process emits in one behaviour of the
\* delivery scenario.
MaxQueueFrames == 3
\* Number of frames the child process emits in one behaviour of the
\* permission scenario.
MaxPermFrames == 3
\* Number of frames the child process emits in one behaviour of the
\* lifecycle scenario.
MaxLifeFrames == 2
\* Number of frames the child process emits in one behaviour of the
\* callback scenario.
MaxCallbackFrames == 3
\* Number of frames the child process emits in one behaviour of the
\* streams scenario.
MaxStreamsFrames == 3
MaxLazyFrames == 2
MaxAbortFrames == 2
MaxClock == 2
MaxPromptFrames == 3
MaxEvictFrames == 3
MaxNoiseFrames == 2
MaxResultFrames == 3
MaxToolCallFrames == 2
MaxOwnerFrames == 3

\* ------------------------------------------------------- program constants
\* options.messageQueueSize ?? 1000
DefaultQueueSize == 1000

Null == "null"
NoOption == "undefined"
\* A null barrier promise / a null identifier.
NoId == 0
\* options.messageQueueSize: a number, or not given.
SizeOption(n) == [given |-> TRUE, value |-> n]
NoSizeOption == [given |-> FALSE, value |-> NoId]

\* Error messages of the source.
ErrAlreadyInitialized == "Session already initialized"
ErrNoInit == "Failed to initialize session - no init message received"
ErrNotConnected == "Transport not connected"
ErrCliNotFound == "Letta Code CLI not found"
ErrCallback == "callback failed"
\* Reading `subtype` of an undefined `request`.
ErrTypeError == "TypeError: Cannot read properties of undefined"

\* ------------------------------------------------------------ call slots
\* The application's calls on the session, one slot per call.
InitCalls == {"i1", "i2"}
SendCalls == {"s1", "s2"}
AbortCalls == {"a1", "a2"}
StreamCalls == {"r1", "r2"}
AllCalls == InitCalls \cup SendCalls \cup AbortCalls \cup StreamCalls

\* --------------------------------------------------------- wire frames
\* The frames of the wire protocol, by the fields the session reads.
\* An entry of `tool_calls`, or the `tool_call` field; NoToolCall where the
\* field or the entry is absent or null.
ToolCall(name, arguments, id) ==
  [given |-> TRUE, name |-> name, arguments |-> arguments, tool_call_id |-> id]
NoToolCall == [given |-> FALSE, name |-> NoOption, arguments |-> NoOption, tool_call_id |-> NoOption]
\* The `tool_calls` array of a frame, or its absence.
ToolCalls(items) == [given |-> TRUE, items |-> items]
NoToolCalls == [given |-> FALSE, items |-> <<>>]

CallRead == ToolCall("Read", "{\"path\":\"a\"}", "call_1")
CallBash == ToolCall("Bash", "{ }", "call_2")
CallEdit == ToolCall("Edit", "{\"path\":", "call_3")

WireInit == [type |-> "system", subtype |-> "init", message_type |-> "", content |-> "", request |-> FALSE,
    tool_calls |-> NoToolCalls, tool_call |-> NoToolCall]
WireAssistant == [type |-> "message", subtype |-> "", message_type |-> "assistant_message", content |-> "text", request |-> FALSE,
    tool_calls |-> NoToolCalls, tool_call |-> NoToolCall]
WireAssistantEmpty == [type |-> "message", subtype |-> "", message_type |-> "assistant_message", content |-> "", request |-> FALSE,
    tool_calls |-> NoToolCalls, tool_call |-> NoToolCall]
WireResult == [type |-> "result", subtype |-> "success", message_type |-> "", content |-> "", request |-> FALSE,
    tool_calls |-> NoToolCalls, tool_call |-> NoToolCall]
WireResultError == [type |-> "result", subtype |-> "error_during_execution", message_type |-> "", content |-> "", request |-> FALSE,
    tool_calls |-> NoToolCalls, tool_call |-> NoToolCall]
WireCanUseTool == [type |-> "control_request", subtype |-> "can_use_tool", message_type |-> "", content |-> "", request |-> TRUE,
    tool_calls |-> NoToolCalls, tool_call |-> NoToolCall]
WireOtherControl == [type |-> "control_request", subtype |-> "other", message_type |-> "", content |-> "", request |-> TRUE,
    tool_calls |-> NoToolCalls, tool_call |-> NoToolCall]
\* A control_request frame that carries no `request` object.
WireControlNoRequest == [type |-> "control_request", subtype |-> "", message_type |-> "", content |-> "", request |-> FALSE,
    tool_calls |-> NoToolCalls, tool_call |-> NoToolCall]
\* A frame of a type the SDK does not know.
WireUnknown == [type |-> "error", subtype |-> "", message_type |-> "", content |-> "text", request |-> FALSE,
    tool_calls |-> NoToolCalls, tool_call |-> NoToolCall]
\* tool_call_message frames: with both fields, with the singular field only,
\* with an empty list, with arguments that are not JSON, with a null entry
\* and no singular field, and with neither field.
WireToolCallNeither ==
  [type |-> "message", subtype |-> "", message_type |-> "tool_call_message",
   content |-> "", request |-> FALSE, tool_calls |-> NoToolCalls, tool_call |-> NoToolCall]
WireToolCallPlural ==
  [WireToolCallNeither EXCEPT !.tool_calls = ToolCalls(<<CallRead, CallEdit>>), !.tool_call = CallBash]
WireToolCallSingular == [WireToolCallNeither EXCEPT !.tool_call = CallBash]
WireToolCallEmptyList ==
  [WireToolCallNeither EXCEPT !.tool_calls = ToolCalls(<<>>), !.tool_call = CallEdit]
WireToolCallBadArgs == [WireToolCallNeither EXCEPT !.tool_calls = ToolCalls(<<CallEdit>>)]
WireToolCallNullEntry == [WireToolCallNeither EXCEPT !.tool_calls = ToolCalls(<<NoToolCall>>)]
WireUserMessage == [type |-> "message", subtype |-> "", message_type |-> "user_message", content |-> "text", request |-> FALSE,
    tool_calls |-> NoToolCalls, tool_call |-> NoToolCall]

\* A frame of the transport: a wire shape and its arrival number.
Frame(shape, n) == [type |-> shape.type, subtype |-> shape.subtype,
                    message_type |-> shape.message_type, content |-> shape.content,
                    request |-> shape.request, tool_calls |-> shape.tool_calls,
                    tool_call |-> shape.tool_call, id |-> n]

VARIABLES
  \* options of the session (fixed by the constructor)
  permissionMode, canUseTool, maxQueueSize,
  \* Session fields
  initialized, identity, pumpRunning, pumpClosed, pumpError,
  messageQueue, messageResolvers, queuedInitMessage, droppedMessageCount,
  initPromise, initResolver, initRejecter, pendingInitMessage,
  approvalBarrier, approvalBarrierResolve,
  \* SubprocessTransport fields: process (non-null), closed, messageQueue
  process, closed, transportQueue,
  \* the pump's position, the request it is handling, and the release
  \* function startApprovalBarrier returned to it
  pumpPc, pumpReq, pumpRelease, pumpWriteOk,
  \* the application's calls: position, pending value, outcome
  pc, val, result,
  \* environment: frames emitted so far, whether close() has been called,
  \* and the millisecond clock Date.now() reads
  arrived, closeCalled, now,
  \* the position of a prompt() call and what it returned or threw
  promptPc, promptValue,
  \* observation: frames written to the child's stdin, messages handed to
  \* pulls, diagnostics of dropOldestIfNeeded, frames the pump has taken from
  \* the transport, canUseTool invocations, and for each call the permission request whose
  \* callback was pending when the application made the call
  \* and what each canUseTool invocation that settled returned or threw
  writes, delivered, warns, observed, callbackCalls, calledDuring, callbackResults

sessionVars == <<initialized, identity, pumpRunning, pumpClosed, pumpError,
                 messageQueue, messageResolvers, queuedInitMessage, droppedMessageCount,
                 initPromise, initResolver, initRejecter, pendingInitMessage,
                 approvalBarrier, approvalBarrierResolve>>
optionVars == <<permissionMode, canUseTool, maxQueueSize>>
transportVars == <<process, closed, transportQueue>>
pumpVars == <<pumpPc, pumpReq, pumpRelease, pumpWriteOk>>
callVars == <<pc, val, result>>
promptVars == <<promptPc, promptValue>>
envVars == <<arrived, closeCalled, now, promptVars>>
obsVars == <<writes, delivered, warns, observed, callbackCalls, calledDuring, callbackResults>>
vars == <<optionVars, sessionVars, transportVars, pumpVars, callVars, envVars, obsVars>>

\* ------------------------------------------------------------ translation
Msg(type, id, success, error) ==
  [type |-> type, id |-> id, success |-> success, error |-> error,
   toolCallId |-> NoOption, toolName |-> NoOption, toolInput |-> {}]
\* null in a field that holds an SDK message
NoMsg == Msg("none", NoId, FALSE, NoOption)

\* JSON.parse on the argument strings of the tool calls above: the parsed
\* object as its set of key-value pairs; a string outside the domain throws.
JSONValue ==
  ("{\"path\":\"a\"}" :> {<<"path", "a">>}) @@ ("{ }" :> {}) @@ ("{}" :> {})

\* toolInput of a tool call: JSON.parse(arguments), or {raw: arguments} when
\* it throws.
parseArguments(arguments) ==
  IF arguments \in DOMAIN JSONValue THEN JSONValue[arguments] ELSE {<<"raw", arguments>>}

\* A mutation of pickToolCall: the singular field is preferred.
pickToolCall_SingularFirst(wireMsg) ==
  IF wireMsg.tool_call.given THEN wireMsg.tool_call
  ELSE IF wireMsg.tool_calls.given /\ Len(wireMsg.tool_calls.items) > 0
    THEN wireMsg.tool_calls.items[1]
  ELSE NoToolCall

\* msg.tool_calls?.[0] || msg.tool_call
pickToolCall(wireMsg) ==
  LET first == IF wireMsg.tool_calls.given /\ Len(wireMsg.tool_calls.items) > 0
                 THEN wireMsg.tool_calls.items[1] ELSE NoToolCall
  IN IF first.given THEN first ELSE wireMsg.tool_call

\* The tool_call message made of the picked tool call.
ToolCallMsg(id, toolCall) ==
  [Msg("tool_call", id, TRUE, NoOption) EXCEPT
     !.toolCallId = toolCall.tool_call_id,
     !.toolName = toolCall.name,
     !.toolInput = parseArguments(toolCall.arguments)]

\* A mutation of transformMessage: every result counts as a success.
transformMessage_AlwaysSuccess(wireMsg) ==
  IF wireMsg.type = "system" /\ wireMsg.subtype = "init"
    THEN Msg("init", wireMsg.id, TRUE, NoOption)
  ELSE IF wireMsg.type = "message" /\ wireMsg.message_type = "assistant_message"
          /\ wireMsg.content # ""
    THEN Msg("assistant", wireMsg.id, TRUE, NoOption)
  ELSE IF wireMsg.type = "result"
    THEN Msg("result", wireMsg.id, TRUE, NoOption)
  ELSE NoMsg

\* transformMessage: wire frame to SDK message, or NoMsg when it is skipped.
\* Only the wire shapes defined above are translated here: the tool_return,
\* reasoning and stream_event branches are left out, and no scenario below
\* emits such frames.
transformMessage(wireMsg) ==
  IF wireMsg.type = "system" /\ wireMsg.subtype = "init"
    THEN Msg("init", wireMsg.id, TRUE, NoOption)
  ELSE IF wireMsg.type = "message" /\ wireMsg.message_type = "assistant_message"
          /\ wireMsg.content # ""
    THEN Msg("assistant", wireMsg.id, TRUE, NoOption)
  ELSE IF wireMsg.type = "message" /\ wireMsg.message_type = "tool_call_message"
          /\ pickToolCall(wireMsg).given
    THEN ToolCallMsg(wireMsg.id, pickToolCall(wireMsg))
  ELSE IF wireMsg.type = "result"
    THEN Msg("result", wireMsg.id, wireMsg.subtype = "success",
             IF wireMsg.subtype # "success" THEN wireMsg.subtype ELSE NoOption)
  ELSE NoMsg

\* The identity triple an init message carries (agent_id, session_id, conversation_id).
NoIdentity == [agentId |-> NoId, sessionId |-> NoId, conversationId |-> NoId]
IdentityOf(initMsg) == [agentId |-> initMsg.id, sessionId |-> initMsg.id, conversationId |-> initMsg.id]

\* What a suspended call is waiting to receive: a message, an error, or the
\* barrier promise it awaits.
Val(msg, err, barrier) == [msg |-> msg, err |-> err, barrier |-> barrier]
NoVal == Val(NoMsg, Null, NoId)

\* What a prompt() call returned or threw.
PromptValue(kind, msg, error) == [kind |-> kind, msg |-> msg, error |-> error]
NoPromptValue == PromptValue("none", NoMsg, Null)
\* The result prompt() makes up when the stream ended without a result.
ErrNoResult == "No result received"
NoResultReceived == Msg("result", NoId, FALSE, ErrNoResult)

\* ------------------------------------------------------------ constructor
\* new Session(options): the fields' initial values.
SessionInit(modes, callbacks, sizes) ==
  /\ permissionMode \in modes
  /\ canUseTool \in callbacks
  /\ \E size \in sizes : maxQueueSize = IF size.given THEN size.value ELSE DefaultQueueSize
  /\ initialized = FALSE
  /\ identity = NoIdentity
  /\ pumpRunning = FALSE
  /\ pumpClosed = FALSE
  /\ pumpError = Null
  /\ messageQueue = <<>>
  /\ messageResolvers = <<>>
  /\ queuedInitMessage = NoMsg
  /\ droppedMessageCount = 0
  /\ initPromise = FALSE
  /\ initResolver = FALSE
  /\ initRejecter = FALSE
  /\ pendingInitMessage = NoMsg
  /\ approvalBarrier = NoId
  /\ approvalBarrierResolve = NoId
  /\ process = FALSE
  /\ closed = FALSE
  /\ transportQueue = <<>>
  /\ pumpPc = "not_started"
  /\ pumpReq = NoId
  /\ pumpRelease = "none"
  /\ pumpWriteOk = TRUE
  /\ pc = [c \in AllCalls |-> "idle"]
  /\ val = [c \in AllCalls |-> NoVal]
  /\ result = [c \in AllCalls |-> Null]
  /\ arrived = 0
  /\ closeCalled = FALSE
  /\ now = 0
  /\ promptPc = "idle"
  /\ promptValue = NoPromptValue
  /\ writes = <<>>
  /\ delivered = <<>>
  /\ warns = <<>>
  /\ observed = <<>>
  /\ callbackCalls = <<>>
  /\ callbackResults = <<>>
  /\ calledDuring = [c \in AllCalls |-> NoId]

\* -------------------------------------------------------------- transport
\* SubprocessTransport.write succeeds unless there is no process or it is closed.
CanWrite == process /\ ~closed

NoResponse == [behavior |-> "", updatedInput |-> Null, updatedPermissions |-> <<>>,
               message |-> "", interrupt |-> FALSE]

WriteFrame(type, subtype, requestId, response, by) ==
  [type |-> type, subtype |-> subtype, request_id |-> requestId,
   response |-> response, by |-> by]

\* The frames a write leaves on the child's stdin: appended, or the write throws.
WritesAfter(frame) == IF CanWrite THEN Append(writes, frame) ELSE writes

\* ------------------------------------------------------- approval barrier
\* releaseApprovalBarrier: resolve the barrier promise and clear both fields;
\* every call awaiting that promise gets its continuation scheduled.
PcAfterRelease(p) ==
  [c \in AllCalls |->
     IF p[c] = "blocked" /\ approvalBarrierResolve # NoId
        /\ val[c].barrier = approvalBarrierResolve
       THEN "ready" ELSE p[c]]

releaseApprovalBarrier ==
  /\ pc' = PcAfterRelease(pc)
  /\ approvalBarrier' = NoId
  /\ approvalBarrierResolve' = NoId

\* ---------------------------------------------------------- delivery queue
\* A mutation of dropOldestLoop: eviction starts one message late.
RECURSIVE dropOldestLoop_Late(_, _, _)
dropOldestLoop_Late(queue, count, log) ==
  IF Len(queue) > maxQueueSize /\ queue # <<>>
    THEN dropOldestLoop_Late(Tail(queue), count + 1, Append(log, count + 1))
    ELSE [queue |-> queue, count |-> count, log |-> log]

\* A mutation of dropOldestLoop: the newest message is evicted.
RECURSIVE dropOldestLoop_Newest(_, _, _)
dropOldestLoop_Newest(queue, count, log) ==
  IF Len(queue) >= maxQueueSize /\ queue # <<>>
    THEN dropOldestLoop_Newest(SubSeq(queue, 1, Len(queue) - 1), count + 1,
                               Append(log, count + 1))
    ELSE [queue |-> queue, count |-> count, log |-> log]

\* A mutation of dropOldestLoop: evicted messages are not counted.
RECURSIVE dropOldestLoop_Uncounted(_, _, _)
dropOldestLoop_Uncounted(queue, count, log) ==
  IF Len(queue) >= maxQueueSize /\ queue # <<>>
    THEN dropOldestLoop_Uncounted(Tail(queue), count, log)
    ELSE [queue |-> queue, count |-> count, log |-> log]

\* The loop of dropOldestIfNeeded.
RECURSIVE dropOldestLoop(_, _, _)
dropOldestLoop(queue, count, log) ==
  IF Len(queue) >= maxQueueSize /\ queue # <<>>
    THEN dropOldestLoop(Tail(queue), count + 1, Append(log, count + 1))
    ELSE [queue |-> queue, count |-> count, log |-> log]

\* A mutation of dropOldestIfNeeded: a capacity of 0 or less is not treated
\* apart.
dropOldestIfNeeded_NoDisable(queue, count, log) ==
  dropOldestLoop(queue, count, log)

\* dropOldestIfNeeded: the queue, the dropped count and the diagnostics after it.
dropOldestIfNeeded(queue, count, log) ==
  IF maxQueueSize <= 0
    THEN [queue |-> queue, count |-> count, log |-> log]
    ELSE dropOldestLoop(queue, count, log)

\* A mutation of enqueueMessage: the waiter parked last is served.
enqueueMessage_Newest(msg) ==
  IF Len(messageResolvers) > 0
    THEN LET last == messageResolvers[Len(messageResolvers)]
         IN /\ messageResolvers' = SubSeq(messageResolvers, 1, Len(messageResolvers) - 1)
            /\ pc' = [pc EXCEPT ![last] = "yielded"]
            /\ val' = [val EXCEPT ![last] = Val(msg, Null, NoId)]
            /\ delivered' = Append(delivered, msg)
            /\ UNCHANGED <<messageQueue, droppedMessageCount, warns>>
    ELSE LET d == dropOldestIfNeeded(messageQueue, droppedMessageCount, warns)
         IN /\ messageQueue' = Append(d.queue, msg)
            /\ droppedMessageCount' = d.count
            /\ warns' = d.log
            /\ UNCHANGED <<messageResolvers, pc, val, delivered>>

\* A mutation of enqueueMessage: the message is queued even when a waiter
\* is parked.
enqueueMessage_QueueFirst(msg) ==
  LET d == dropOldestIfNeeded(messageQueue, droppedMessageCount, warns)
  IN /\ messageQueue' = Append(d.queue, msg)
     /\ droppedMessageCount' = d.count
     /\ warns' = d.log
     /\ UNCHANGED <<messageResolvers, pc, val, delivered>>

\* A mutation of enqueueMessage: a message handed to a parked waiter is
\* also left in the queue.
enqueueMessage_Both(msg) ==
  IF Len(messageResolvers) > 0
    THEN /\ messageResolvers' = Tail(messageResolvers)
         /\ pc' = [pc EXCEPT ![Head(messageResolvers)] = "yielded"]
         /\ val' = [val EXCEPT ![Head(messageResolvers)] = Val(msg, Null, NoId)]
         /\ delivered' = Append(delivered, msg)
         /\ messageQueue' = Append(messageQueue, msg)
         /\ UNCHANGED <<droppedMessageCount, warns>>
    ELSE LET d == dropOldestIfNeeded(messageQueue, droppedMessageCount, warns)
         IN /\ messageQueue' = Append(d.queue, msg)
            /\ droppedMessageCount' = d.count
            /\ warns' = d.log
            /\ UNCHANGED <<messageResolvers, pc, val, delivered>>

\* A mutation of enqueueMessage: the message goes to the front of the queue.
enqueueMessage_Front(msg) ==
  IF Len(messageResolvers) > 0
    THEN /\ messageResolvers' = Tail(messageResolvers)
         /\ pc' = [pc EXCEPT ![Head(messageResolvers)] = "yielded"]
         /\ val' = [val EXCEPT ![Head(messageResolvers)] = Val(msg, Null, NoId)]
         /\ delivered' = Append(delivered, msg)
         /\ UNCHANGED <<messageQueue, droppedMessageCount, warns>>
    ELSE LET d == dropOldestIfNeeded(messageQueue, droppedMessageCount, warns)
         IN /\ messageQueue' = <<msg>> \o d.queue
            /\ droppedMessageCount' = d.count
            /\ warns' = d.log
            /\ UNCHANGED <<messageResolvers, pc, val, delivered>>

\* enqueueMessage: hand msg to the oldest waiter, or evict and push.
enqueueMessage(msg) ==
  IF Len(messageResolvers) > 0
    THEN /\ messageResolvers' = Tail(messageResolvers)
         /\ pc' = [pc EXCEPT ![Head(messageResolvers)] = "yielded"]
         /\ val' = [val EXCEPT ![Head(messageResolvers)] = Val(msg, Null, NoId)]
         /\ delivered' = Append(delivered, msg)
         /\ UNCHANGED <<messageQueue, droppedMessageCount, warns>>
    ELSE LET d == dropOldestIfNeeded(messageQueue, droppedMessageCount, warns)
         IN /\ messageQueue' = Append(d.queue, msg)
            /\ droppedMessageCount' = d.count
            /\ warns' = d.log
            /\ UNCHANGED <<messageResolvers, pc, val, delivered>>

\* resolveInitMessage: resolve the init promise, or cache the message.
ValAfterInitResolve(msg) ==
  [c \in AllCalls |-> IF initResolver /\ pc[c] = "await_init" /\ val[c] = NoVal
                        THEN Val(msg, Null, NoId) ELSE val[c]]

\* A mutation of resolveInitMessage: the rejecter is left in place when the
\* future is resolved.
resolveInitMessage_KeepRejecter(msg) ==
  IF initResolver
    THEN /\ initResolver' = FALSE
         /\ initPromise' = FALSE
         /\ UNCHANGED <<initRejecter, pendingInitMessage>>
    ELSE /\ pendingInitMessage' = msg
         /\ UNCHANGED <<initResolver, initRejecter, initPromise>>

resolveInitMessage(msg) ==
  IF initResolver
    THEN /\ initResolver' = FALSE
         /\ initRejecter' = FALSE
         /\ initPromise' = FALSE
         /\ UNCHANGED pendingInitMessage
    ELSE /\ pendingInitMessage' = msg
         /\ UNCHANGED <<initResolver, initRejecter, initPromise>>

\* A mutation of queueInitMessage: a later init message replaces the one
\* held in the slot.
queueInitMessage_Overwrite(msg) ==
  IF Len(messageResolvers) > 0
    THEN /\ messageResolvers' = Tail(messageResolvers)
         /\ pc' = [pc EXCEPT ![Head(messageResolvers)] = "yielded"]
         /\ val' = [ValAfterInitResolve(msg) EXCEPT ![Head(messageResolvers)] = Val(msg, Null, NoId)]
         /\ delivered' = Append(delivered, msg)
         /\ UNCHANGED queuedInitMessage
    ELSE /\ queuedInitMessage' = msg
         /\ val' = ValAfterInitResolve(msg)
         /\ UNCHANGED <<messageResolvers, pc, delivered>>

\* queueInitMessage: hand the init message to the oldest waiter, or cache it
\* for the stream unless one is cached already.
queueInitMessage(msg) ==
  IF Len(messageResolvers) > 0
    THEN /\ messageResolvers' = Tail(messageResolvers)
         /\ pc' = [pc EXCEPT ![Head(messageResolvers)] = "yielded"]
         /\ val' = [ValAfterInitResolve(msg) EXCEPT ![Head(messageResolvers)] = Val(msg, Null, NoId)]
         /\ delivered' = Append(delivered, msg)
         /\ UNCHANGED queuedInitMessage
    ELSE /\ queuedInitMessage' = IF queuedInitMessage = NoMsg THEN msg ELSE queuedInitMessage
         /\ val' = ValAfterInitResolve(msg)
         /\ UNCHANGED <<messageResolvers, pc, delivered>>

\* The finally block of pumpLoop: pumpClosed, resolveMessageReaders (every
\* parked waiter gets null) and rejectInitIfPending.
pumpFinally ==
  /\ pumpClosed' = TRUE
  /\ messageResolvers' = <<>>
  /\ pc' = [c \in AllCalls |-> IF pc[c] = "parked" THEN "done" ELSE pc[c]]
  /\ result' = [c \in AllCalls |-> IF pc[c] = "parked" THEN "ended" ELSE result[c]]
  /\ val' = [c \in AllCalls |-> IF initRejecter /\ pc[c] = "await_init" /\ val[c] = NoVal
                                  THEN Val(NoMsg, ErrNoInit, NoId) ELSE val[c]]
  /\ initResolver' = IF initRejecter THEN FALSE ELSE initResolver
  /\ initPromise' = IF initRejecter THEN FALSE ELSE initPromise
  /\ initRejecter' = FALSE
  /\ pumpPc' = "closed"

\* ---------------------------------------------------------- the child
\* Promise continuations run to completion before the event loop takes the
\* next I/O event: the child's output and exit are seen only when no
\* continuation of the pump or of a call is scheduled.
Quiescent ==
  /\ pumpPc \notin {"ready", "written", "failing"}
  /\ \A c \in AllCalls :
       /\ pc[c] \notin {"ready", "after_init"}
       /\ ~(pc[c] = "await_init" /\ val[c] # NoVal)

\* The frames of a chunk, numbered in arrival order from n + 1.
FramesOf(shapes, n) == [i \in 1..Len(shapes) |-> Frame(shapes[i], n + i)]

\* The non-empty sequences over S of length at most n.
SeqsUpTo(S, n) == UNION {[1..k -> S] : k \in 1..n}

\* handleMessage of the transport, once per line of a chunk of the child's
\* stdout: a line is handed to the reader parked in read() (the pump, whose
\* continuation is then scheduled), the following ones are queued.
ChunkArrives(shapes, maxFrames) ==
  /\ process /\ ~closed
  /\ Quiescent
  /\ Len(shapes) >= 1
  /\ arrived + Len(shapes) <= maxFrames
  /\ arrived' = arrived + Len(shapes)
  /\ transportQueue' = transportQueue \o FramesOf(shapes, arrived)
  /\ pumpPc' = IF pumpPc = "parked" THEN "ready" ELSE pumpPc
  /\ UNCHANGED <<optionVars, sessionVars, process, closed, pumpReq, pumpRelease,
                 pumpWriteOk, callVars, closeCalled, now, promptVars, obsVars>>

\* The child process's 'close' (or 'error') event: only the flag is set; a
\* reader parked in read() is left parked.
ProcessExit ==
  /\ process /\ ~closed
  /\ Quiescent
  /\ closed' = TRUE
  /\ UNCHANGED <<optionVars, sessionVars, process, transportQueue, pumpVars,
                 callVars, envVars, obsVars>>

\* ------------------------------------------------------------- the pump
\* The response handleCanUseTool sends when it needs no callback.
AllowBypass == [behavior |-> "allow", updatedInput |-> Null, updatedPermissions |-> <<>>,
                message |-> NoOption, interrupt |-> FALSE]
DenyNoCallback == [behavior |-> "deny", updatedInput |-> NoOption, updatedPermissions |-> <<>>,
                   message |-> "No canUseTool callback registered", interrupt |-> FALSE]

\* The response for an outcome of the canUseTool callback.
CallbackOutcomes ==
  { [kind |-> "allow", updatedInput |-> NoOption, message |-> NoOption],
    [kind |-> "allow", updatedInput |-> "edited", message |-> NoOption],
    [kind |-> "deny", updatedInput |-> NoOption, message |-> "Tool not allowed"],
    [kind |-> "deny", updatedInput |-> NoOption, message |-> NoOption],
    [kind |-> "throw", updatedInput |-> NoOption, message |-> ErrCallback],
    [kind |-> "throw_non_error", updatedInput |-> NoOption, message |-> NoOption] }

\* A mutation of CallbackResponse: a callback that throws is taken to allow.
CallbackResponse_ThrowAllows(outcome) ==
  IF outcome.kind = "deny"
    THEN [behavior |-> "deny", updatedInput |-> NoOption, updatedPermissions |-> <<>>,
          message |-> IF outcome.message = NoOption THEN "Denied by canUseTool callback"
                      ELSE outcome.message,
          interrupt |-> FALSE]
  ELSE [behavior |-> "allow",
        updatedInput |-> IF outcome.updatedInput = NoOption THEN Null ELSE outcome.updatedInput,
        updatedPermissions |-> <<>>, message |-> NoOption, interrupt |-> FALSE]

CallbackResponse(outcome) ==
  IF outcome.kind = "allow"
    THEN [behavior |-> "allow",
          updatedInput |-> IF outcome.updatedInput = NoOption THEN Null ELSE outcome.updatedInput,
          updatedPermissions |-> <<>>, message |-> NoOption, interrupt |-> FALSE]
  ELSE IF outcome.kind = "deny"
    THEN [behavior |-> "deny", updatedInput |-> NoOption, updatedPermissions |-> <<>>,
          message |-> IF outcome.message = NoOption THEN "Denied by canUseTool callback"
                      ELSE outcome.message,
          interrupt |-> FALSE]
  ELSE [behavior |-> "deny", updatedInput |-> NoOption, updatedPermissions |-> <<>>,
        message |-> IF outcome.kind = "throw" THEN outcome.message ELSE "Callback error",
        interrupt |-> FALSE]

\* A mutation of ControlResponse: a denial is sent with subtype "error".
ControlResponse_ErrorOnDeny(requestId, response) ==
  WriteFrame("control_response", IF response.behavior = "deny" THEN "error" ELSE "success",
             ToString(requestId), response, "pump")

\* The control_response frame that handleCanUseTool writes.
ControlResponse(requestId, response) ==
  WriteFrame("control_response", "success", ToString(requestId), response, "pump")

\* startApprovalBarrier: engage the barrier unless it is engaged already;
\* the release function handed back is the real one or a no-op.
startApprovalBarrier(requestId) ==
  IF approvalBarrier # NoId
    THEN /\ pumpRelease' = "noop"
         /\ UNCHANGED <<approvalBarrier, approvalBarrierResolve>>
    ELSE /\ pumpRelease' = "release"
         /\ approvalBarrier' = requestId
         /\ approvalBarrierResolve' = requestId

\* A mutation of PermissionRoute: the callback is consulted before the mode.
PermissionRoute_CallbackFirst ==
  IF canUseTool THEN "callback"
  ELSE IF permissionMode = "bypassPermissions" THEN "bypass"
  ELSE "deny"

\* A mutation of PermissionRoute: every mode but the default one bypasses.
PermissionRoute_AnyModeBypasses ==
  IF permissionMode # "default" THEN "bypass"
  ELSE IF canUseTool THEN "callback"
  ELSE "deny"

\* The branch handleCanUseTool takes.
PermissionRoute ==
  IF permissionMode = "bypassPermissions" THEN "bypass"
  ELSE IF canUseTool THEN "callback"
  ELSE "deny"

\* handleCanUseTool up to its first suspension: the barrier is engaged, and
\* either the response is written at once or the callback is invoked.
handleCanUseTool(requestId) ==
  /\ startApprovalBarrier(requestId)
  /\ pumpReq' = requestId
  /\ IF PermissionRoute = "bypass"
       THEN /\ writes' = WritesAfter(ControlResponse(requestId, AllowBypass))
            /\ pumpWriteOk' = CanWrite
            /\ pumpPc' = "written"
            /\ UNCHANGED <<callbackCalls, callbackResults>>
     ELSE IF PermissionRoute = "callback"
       THEN /\ callbackCalls' = Append(callbackCalls, requestId)
            /\ UNCHANGED callbackResults
            /\ pumpPc' = "in_callback"
            /\ UNCHANGED <<writes, pumpWriteOk>>
       ELSE /\ writes' = WritesAfter(ControlResponse(requestId, DenyNoCallback))
            /\ pumpWriteOk' = CanWrite
            /\ pumpPc' = "written"
            /\ UNCHANGED <<callbackCalls, callbackResults>>
  /\ UNCHANGED <<initialized, identity, pumpRunning, pumpClosed, pumpError,
                 messageQueue, messageResolvers, queuedInitMessage, droppedMessageCount,
                 initPromise, initResolver, initRejecter, pendingInitMessage,
                 callVars, delivered, warns, calledDuring>>

\* A mutation of PumpFrame: the pump takes the next frame while the
\* canUseTool callback is pending.
PumpFrame_NoAwait ==
  /\ pumpPc \in {"ready", "in_callback"}
  /\ transportQueue # <<>>
  /\ transportQueue' = Tail(transportQueue)
  /\ observed' = Append(observed, Head(transportQueue))
  /\ LET wireMsg == Head(transportQueue)
         sdkMsg == transformMessage(wireMsg)
     IN IF wireMsg.type = "control_request" /\ wireMsg.subtype = "can_use_tool"
          THEN handleCanUseTool(wireMsg.id)
        ELSE IF sdkMsg = NoMsg
          THEN UNCHANGED <<sessionVars, pumpVars, callVars, writes, delivered, warns,
                           callbackCalls, calledDuring, callbackResults>>
        ELSE IF sdkMsg.type = "init"
          THEN /\ resolveInitMessage(sdkMsg)
               /\ queueInitMessage(sdkMsg)
               /\ UNCHANGED <<initialized, identity, pumpRunning, pumpClosed, pumpError,
                              messageQueue, droppedMessageCount, approvalBarrier,
                              approvalBarrierResolve, pumpVars, result, writes, warns,
                              callbackCalls, calledDuring, callbackResults>>
          ELSE /\ enqueueMessage(sdkMsg)
               /\ UNCHANGED <<initialized, identity, pumpRunning, pumpClosed, pumpError,
                              queuedInitMessage, initPromise, initResolver, initRejecter,
                              pendingInitMessage, approvalBarrier, approvalBarrierResolve,
                              pumpVars, result, writes, callbackCalls, calledDuring, callbackResults>>
  /\ UNCHANGED <<optionVars, process, closed, envVars>>

\* One iteration of pumpLoop on the next frame of transport.messages().
PumpFrame ==
  /\ pumpPc = "ready"
  /\ transportQueue # <<>>
  /\ transportQueue' = Tail(transportQueue)
  /\ observed' = Append(observed, Head(transportQueue))
  /\ LET wireMsg == Head(transportQueue)
         sdkMsg == transformMessage(wireMsg)
     IN IF wireMsg.type = "control_request" /\ ~wireMsg.request
          THEN \* controlReq.request.subtype throws: catch and finally run
               /\ pumpError' = ErrTypeError
               /\ pumpFinally
               /\ UNCHANGED <<initialized, identity, pumpRunning, messageQueue,
                              queuedInitMessage, droppedMessageCount, pendingInitMessage,
                              approvalBarrier, approvalBarrierResolve, pumpReq, pumpRelease,
                              pumpWriteOk, writes, delivered, warns, callbackCalls,
                              calledDuring, callbackResults>>
        ELSE IF wireMsg.type = "control_request" /\ wireMsg.subtype = "can_use_tool"
          THEN handleCanUseTool(wireMsg.id)
        ELSE IF sdkMsg = NoMsg
          THEN UNCHANGED <<sessionVars, pumpVars, callVars, writes, delivered, warns,
                           callbackCalls, calledDuring, callbackResults>>
        ELSE IF sdkMsg.type = "init"
          THEN /\ resolveInitMessage(sdkMsg)
               /\ queueInitMessage(sdkMsg)
               /\ UNCHANGED <<initialized, identity, pumpRunning, pumpClosed, pumpError,
                              messageQueue, droppedMessageCount, approvalBarrier,
                              approvalBarrierResolve, pumpVars, result, writes, warns,
                              callbackCalls, calledDuring, callbackResults>>
          ELSE /\ enqueueMessage(sdkMsg)
               /\ UNCHANGED <<initialized, identity, pumpRunning, pumpClosed, pumpError,
                              queuedInitMessage, initPromise, initResolver, initRejecter,
                              pendingInitMessage, approvalBarrier, approvalBarrierResolve,
                              pumpVars, result, writes, callbackCalls, calledDuring, callbackResults>>
  /\ UNCHANGED <<optionVars, process, closed, envVars>>

\* read() with nothing queued and the transport open: the pump parks.
PumpPark ==
  /\ pumpPc = "ready"
  /\ transportQueue = <<>>
  /\ ~closed
  /\ pumpPc' = "parked"
  /\ UNCHANGED <<optionVars, sessionVars, transportVars, pumpReq, pumpRelease,
                 pumpWriteOk, callVars, envVars, obsVars>>

\* read() returned null: the loop ends and the finally block runs.
PumpEnd ==
  /\ pumpPc = "ready"
  /\ transportQueue = <<>>
  /\ closed
  /\ pumpFinally
  /\ UNCHANGED <<optionVars, initialized, identity, pumpRunning, pumpError, messageQueue,
                 queuedInitMessage, droppedMessageCount, pendingInitMessage,
                 approvalBarrier, approvalBarrierResolve, transportVars, pumpReq,
                 pumpRelease, pumpWriteOk, envVars, obsVars>>

\* The canUseTool callback settles: the response is built and written.
CallbackSettles(outcome) ==
  /\ pumpPc = "in_callback"
  /\ writes' = WritesAfter(ControlResponse(pumpReq, CallbackResponse(outcome)))
  /\ pumpWriteOk' = CanWrite
  /\ pumpPc' = "written"
  /\ UNCHANGED <<optionVars, sessionVars, transportVars, pumpReq, pumpRelease, callVars,
                 envVars, delivered, warns, observed, callbackCalls, calledDuring>>
  /\ callbackResults' = Append(callbackResults, [request |-> pumpReq, outcome |-> outcome])

\* A mutation of PumpReleaseBarrier: the barrier is released only after a
\* write that succeeded (no finally block).
PumpReleaseBarrier_NoFinally ==
  /\ pumpPc = "written"
  /\ IF pumpRelease = "release" /\ pumpWriteOk
       THEN releaseApprovalBarrier
       ELSE UNCHANGED <<pc, approvalBarrier, approvalBarrierResolve>>
  /\ pumpPc' = IF pumpWriteOk THEN "ready" ELSE "failing"
  /\ pumpReq' = NoId
  /\ pumpRelease' = "none"
  /\ UNCHANGED <<optionVars, initialized, identity, pumpRunning, pumpClosed, pumpError,
                 messageQueue, messageResolvers, queuedInitMessage, droppedMessageCount,
                 initPromise, initResolver, initRejecter, pendingInitMessage,
                 transportVars, pumpWriteOk, val, result, envVars, obsVars>>

\* A mutation of PumpReleaseBarrier: the release function does nothing, so
\* the barrier stays engaged after the exchange.
PumpReleaseBarrier_Noop ==
  /\ pumpPc = "written"
  /\ pumpPc' = IF pumpWriteOk THEN "ready" ELSE "failing"
  /\ pumpReq' = NoId
  /\ pumpRelease' = "none"
  /\ UNCHANGED <<optionVars, initialized, identity, pumpRunning, pumpClosed, pumpError,
                 messageQueue, messageResolvers, queuedInitMessage, droppedMessageCount,
                 initPromise, initResolver, initRejecter, pendingInitMessage,
                 approvalBarrier, approvalBarrierResolve, pc,
                 transportVars, pumpWriteOk, val, result, envVars, obsVars>>

\* The finally block of handleCanUseTool: releaseBarrier(); the pump then
\* goes on to the next frame, or the write's error propagates to pumpLoop.
PumpReleaseBarrier ==
  /\ pumpPc = "written"
  /\ IF pumpRelease = "release"
       THEN releaseApprovalBarrier
       ELSE UNCHANGED <<pc, approvalBarrier, approvalBarrierResolve>>
  /\ pumpPc' = IF pumpWriteOk THEN "ready" ELSE "failing"
  /\ pumpReq' = NoId
  /\ pumpRelease' = "none"
  /\ UNCHANGED <<optionVars, initialized, identity, pumpRunning, pumpClosed, pumpError,
                 messageQueue, messageResolvers, queuedInitMessage, droppedMessageCount,
                 initPromise, initResolver, initRejecter, pendingInitMessage,
                 transportVars, pumpWriteOk, val, result, envVars, obsVars>>

\* A mutation of PumpFail: the error is not stored.
PumpFail_NoStore ==
  /\ pumpPc = "failing"
  /\ pumpFinally
  /\ UNCHANGED <<optionVars, initialized, identity, pumpRunning, pumpError, messageQueue,
                 queuedInitMessage, droppedMessageCount, pendingInitMessage,
                 approvalBarrier, approvalBarrierResolve, transportVars, pumpReq,
                 pumpRelease, pumpWriteOk, envVars, obsVars>>

\* The catch and finally blocks of pumpLoop after handleCanUseTool threw.
PumpFail ==
  /\ pumpPc = "failing"
  /\ pumpError' = ErrNotConnected
  /\ pumpFinally
  /\ UNCHANGED <<optionVars, initialized, identity, pumpRunning, messageQueue,
                 queuedInitMessage, droppedMessageCount, pendingInitMessage,
                 approvalBarrier, approvalBarrierResolve, transportVars, pumpReq,
                 pumpRelease, pumpWriteOk, envVars, obsVars>>

\* ----------------------------------------------------------- initialize()
\* A mutation of InitializeCall: the initialized flag is not consulted.
InitializeCall_NoGuard(c) ==
  /\ pc[c] = "idle"
  /\ pc' = [pc EXCEPT ![c] = "connecting"]
  /\ UNCHANGED <<optionVars, sessionVars, transportVars, pumpVars, val, result, envVars, obsVars>>

\* initialize() up to `await this.transport.connect()`.
InitializeCall(c) ==
  /\ pc[c] = "idle"
  /\ IF initialized
       THEN /\ pc' = [pc EXCEPT ![c] = "done"]
            /\ result' = [result EXCEPT ![c] = ErrAlreadyInitialized]
       ELSE /\ pc' = [pc EXCEPT ![c] = "connecting"]
            /\ UNCHANGED result
  /\ UNCHANGED <<optionVars, sessionVars, transportVars, pumpVars, val, envVars, obsVars>>

\* The permission request whose callback is pending as call c is made.
CalledNow(c) ==
  [calledDuring EXCEPT ![c] = IF pumpPc = "in_callback" THEN pumpReq ELSE NoId]

\* send() or stream() on a session that is not initialized calls initialize().
LazyInitialize(c) ==
  /\ pc[c] = "idle"
  /\ ~initialized
  /\ pc' = [pc EXCEPT ![c] = "connecting"]
  /\ calledDuring' = CalledNow(c)
  /\ UNCHANGED <<optionVars, sessionVars, transportVars, pumpVars, val, result, envVars,
                 writes, delivered, warns, observed, callbackCalls, callbackResults>>

\* connect() rejects (findCli or buildArgs throws): initialize() rejects.
ConnectFails(c) ==
  /\ pc[c] = "connecting"
  /\ pc' = [pc EXCEPT ![c] = "done"]
  /\ result' = [result EXCEPT ![c] = ErrCliNotFound]
  /\ UNCHANGED <<optionVars, sessionVars, transportVars, pumpVars, val, envVars, obsVars>>

\* A mutation of startPump: a pump that has closed is started again.
startPump_Restart ==
  IF pumpRunning /\ pumpPc # "closed"
    THEN UNCHANGED <<pumpRunning, pumpPc>>
    ELSE /\ pumpRunning' = TRUE
         /\ pumpPc' = IF transportQueue = <<>> /\ ~closed THEN "parked" ELSE "ready"

\* startPump: the pump starts once; its first read() runs at once.
startPump ==
  IF pumpRunning
    THEN UNCHANGED <<pumpRunning, pumpPc>>
    ELSE /\ pumpRunning' = TRUE
         /\ pumpPc' = IF transportQueue = <<>> /\ ~closed THEN "parked" ELSE "ready"

\* waitForInitMessage: the cached init message, or the (one) init promise.
waitForInitMessage ==
  IF pendingInitMessage # NoMsg
    THEN /\ pendingInitMessage' = NoMsg
         /\ UNCHANGED <<initPromise, initResolver, initRejecter>>
    ELSE /\ initPromise' = TRUE
         /\ initResolver' = IF initPromise THEN initResolver ELSE TRUE
         /\ initRejecter' = IF initPromise THEN initRejecter ELSE TRUE
         /\ UNCHANGED pendingInitMessage

\* initialize() from the child being spawned to `await initPromise`:
\* startPump, waitForInitMessage and the write of the initialize request.
\* A mutation of Connected: the write of the `initialize` request does not
\* throw on a closed transport.
Connected_WriteNeverThrows(c) ==
  /\ pc[c] = "connecting"
  /\ process' = TRUE
  /\ startPump
  /\ waitForInitMessage
  /\ writes' = IF ~closed
                 THEN Append(writes, WriteFrame("control_request", "initialize", "init_1", NoResponse, c))
                 ELSE writes
  /\ pc' = [pc EXCEPT ![c] = "await_init"]
  /\ val' = [val EXCEPT ![c] =
               IF pendingInitMessage # NoMsg THEN Val(pendingInitMessage, Null, NoId)
               ELSE NoVal]
  /\ UNCHANGED <<optionVars, initialized, identity, pumpClosed, pumpError, messageQueue,
                 messageResolvers, queuedInitMessage, droppedMessageCount,
                 approvalBarrier, approvalBarrierResolve, closed, transportQueue,
                 pumpReq, pumpRelease, pumpWriteOk, result, envVars,
                 delivered, warns, observed, callbackCalls, calledDuring, callbackResults>>

\* A mutation of Connected: initialize() returns after writing the
\* `initialize` request, without awaiting the init message.
Connected_NoInitWait(c) ==
  /\ pc[c] = "connecting"
  /\ process' = TRUE
  /\ startPump
  /\ waitForInitMessage
  /\ writes' = IF ~closed
                 THEN Append(writes, WriteFrame("control_request", "initialize", "init_1", NoResponse, c))
                 ELSE writes
  /\ pc' = [pc EXCEPT ![c] = IF c \in InitCalls THEN "done" ELSE "after_init"]
  /\ val' = [val EXCEPT ![c] = NoVal]
  /\ UNCHANGED <<optionVars, initialized, identity, pumpClosed, pumpError, messageQueue,
                 messageResolvers, queuedInitMessage, droppedMessageCount,
                 approvalBarrier, approvalBarrierResolve, closed, transportQueue,
                 pumpReq, pumpRelease, pumpWriteOk, result, envVars,
                 delivered, warns, observed, callbackCalls, calledDuring, callbackResults>>

Connected(c) ==
  /\ pc[c] = "connecting"
  /\ process' = TRUE
  /\ startPump
  /\ waitForInitMessage
  /\ writes' = IF ~closed
                 THEN Append(writes, WriteFrame("control_request", "initialize", "init_1", NoResponse, c))
                 ELSE writes
  /\ pc' = [pc EXCEPT ![c] = "await_init"]
  /\ val' = [val EXCEPT ![c] =
               IF closed THEN Val(NoMsg, ErrNotConnected, NoId)
               ELSE IF pendingInitMessage # NoMsg THEN Val(pendingInitMessage, Null, NoId)
               ELSE NoVal]
  /\ UNCHANGED <<optionVars, initialized, identity, pumpClosed, pumpError, messageQueue,
                 messageResolvers, queuedInitMessage, droppedMessageCount,
                 approvalBarrier, approvalBarrierResolve, closed, transportQueue,
                 pumpReq, pumpRelease, pumpWriteOk, result, envVars,
                 delivered, warns, observed, callbackCalls, calledDuring, callbackResults>>

\* initialize() after `await initPromise` (or after the write threw): the
\* identity triple and the flag are set, or the call rejects.
InitSettled(c) ==
  /\ pc[c] = "await_init"
  /\ val[c] # NoVal
  /\ IF val[c].err # Null
       THEN /\ pc' = [pc EXCEPT ![c] = "done"]
            /\ result' = [result EXCEPT ![c] = val[c].err]
            /\ UNCHANGED <<initialized, identity>>
       ELSE /\ identity' = IdentityOf(val[c].msg)
            /\ initialized' = TRUE
            /\ pc' = [pc EXCEPT ![c] = IF c \in InitCalls THEN "done" ELSE "after_init"]
            /\ result' = [result EXCEPT ![c] = IF c \in InitCalls THEN "ok" ELSE result[c]]
  /\ val' = [val EXCEPT ![c] = NoVal]
  /\ UNCHANGED <<optionVars, pumpRunning, pumpClosed, pumpError, messageQueue,
                 messageResolvers, queuedInitMessage, droppedMessageCount, initPromise,
                 initResolver, initRejecter, pendingInitMessage, approvalBarrier,
                 approvalBarrierResolve, transportVars, pumpVars, envVars, obsVars>>

\* ------------------------------------------------------- send() and abort()
\* A mutation of waitForApprovalClear: the barrier is not consulted.
waitForApprovalClear_NoWait(c) ==
  /\ pc' = [pc EXCEPT ![c] = "ready"]
  /\ UNCHANGED val

\* waitForApprovalClear: the call awaits the barrier promise if there is
\* one, else its continuation is scheduled.
waitForApprovalClear(c) ==
  IF approvalBarrier # NoId
    THEN /\ pc' = [pc EXCEPT ![c] = "blocked"]
         /\ val' = [val EXCEPT ![c] = Val(NoMsg, Null, approvalBarrier)]
    ELSE /\ pc' = [pc EXCEPT ![c] = "ready"]
         /\ UNCHANGED val

\* send() on an initialized session, or after its initialize() returned.
SendCall(c) ==
  /\ \/ pc[c] = "idle" /\ initialized
     \/ pc[c] = "after_init"
  /\ waitForApprovalClear(c)
  /\ calledDuring' = IF pc[c] = "idle" THEN CalledNow(c) ELSE calledDuring
  /\ UNCHANGED <<optionVars, sessionVars, transportVars, pumpVars, result, envVars,
                 writes, delivered, warns, observed, callbackCalls, callbackResults>>

\* A mutation of SendWrite: the user message is also put on the delivery path.
SendWrite_Echo(c) ==
  /\ pc[c] = "ready"
  /\ writes' = WritesAfter(WriteFrame("user", "", "", NoResponse, c))
  /\ pc' = [pc EXCEPT ![c] = "done"]
  /\ result' = [result EXCEPT ![c] = IF CanWrite THEN "ok" ELSE ErrNotConnected]
  /\ messageQueue' = Append(messageQueue, Msg("user", NoId, TRUE, NoOption))
  /\ UNCHANGED <<optionVars, initialized, identity, pumpRunning, pumpClosed, pumpError,
                 messageResolvers, queuedInitMessage, droppedMessageCount, initPromise,
                 initResolver, initRejecter, pendingInitMessage, approvalBarrier,
                 approvalBarrierResolve, transportVars, pumpVars, val, envVars,
                 delivered, warns, observed, callbackCalls, calledDuring, callbackResults>>

\* send(): the continuation after `await this.waitForApprovalClear()`.
SendWrite(c) ==
  /\ pc[c] = "ready"
  /\ writes' = WritesAfter(WriteFrame("user", "", "", NoResponse, c))
  /\ pc' = [pc EXCEPT ![c] = "done"]
  /\ result' = [result EXCEPT ![c] = IF CanWrite THEN "ok" ELSE ErrNotConnected]
  /\ UNCHANGED <<optionVars, sessionVars, transportVars, pumpVars, val, envVars,
                 delivered, warns, observed, callbackCalls, calledDuring, callbackResults>>

\* abort() up to `await this.waitForApprovalClear()`.
AbortCall(c) ==
  /\ pc[c] = "idle"
  /\ waitForApprovalClear(c)
  /\ calledDuring' = CalledNow(c)
  /\ UNCHANGED <<optionVars, sessionVars, transportVars, pumpVars, result, envVars,
                 writes, delivered, warns, observed, callbackCalls, callbackResults>>

\* The request id of an interrupt request: `interrupt-${Date.now()}`.
InterruptId(time) == "interrupt-" \o ToString(time)

\* abort(): the continuation that writes the interrupt request.
AbortWrite(c) ==
  /\ pc[c] = "ready"
  /\ writes' = WritesAfter(WriteFrame("control_request", "interrupt", InterruptId(now), NoResponse, c))
  /\ pc' = [pc EXCEPT ![c] = "done"]
  /\ result' = [result EXCEPT ![c] = IF CanWrite THEN "ok" ELSE ErrNotConnected]
  /\ UNCHANGED <<optionVars, sessionVars, transportVars, pumpVars, val, envVars,
                 delivered, warns, observed, callbackCalls, calledDuring, callbackResults>>

\* ------------------------------------------------------------------ stream()
\* A mutation of readSdkMessage: the stored error and the closure are
\* looked at before the cached init message and the queue.
readSdkMessage_ErrorFirst(c) ==
  IF pumpError # Null
    THEN /\ pc' = [pc EXCEPT ![c] = "done"]
         /\ result' = [result EXCEPT ![c] = pumpError]
         /\ val' = [val EXCEPT ![c] = NoVal]
         /\ UNCHANGED <<queuedInitMessage, messageQueue, messageResolvers, delivered>>
  ELSE IF pumpClosed
    THEN /\ pc' = [pc EXCEPT ![c] = "done"]
         /\ result' = [result EXCEPT ![c] = "ended"]
         /\ val' = [val EXCEPT ![c] = NoVal]
         /\ UNCHANGED <<queuedInitMessage, messageQueue, messageResolvers, delivered>>
  ELSE IF queuedInitMessage # NoMsg
    THEN /\ queuedInitMessage' = NoMsg
         /\ pc' = [pc EXCEPT ![c] = "yielded"]
         /\ val' = [val EXCEPT ![c] = Val(queuedInitMessage, Null, NoId)]
         /\ delivered' = Append(delivered, queuedInitMessage)
         /\ UNCHANGED <<messageQueue, messageResolvers, result>>
  ELSE IF Len(messageQueue) > 0
    THEN /\ messageQueue' = Tail(messageQueue)
         /\ pc' = [pc EXCEPT ![c] = "yielded"]
         /\ val' = [val EXCEPT ![c] = Val(Head(messageQueue), Null, NoId)]
         /\ delivered' = Append(delivered, Head(messageQueue))
         /\ UNCHANGED <<queuedInitMessage, messageResolvers, result>>
    ELSE /\ messageResolvers' = Append(messageResolvers, c)
         /\ pc' = [pc EXCEPT ![c] = "parked"]
         /\ val' = [val EXCEPT ![c] = NoVal]
         /\ UNCHANGED <<queuedInitMessage, messageQueue, result, delivered>>

\* readSdkMessage for the pull of stream call c.
readSdkMessage(c) ==
  IF queuedInitMessage # NoMsg
    THEN /\ queuedInitMessage' = NoMsg
         /\ pc' = [pc EXCEPT ![c] = "yielded"]
         /\ val' = [val EXCEPT ![c] = Val(queuedInitMessage, Null, NoId)]
         /\ delivered' = Append(delivered, queuedInitMessage)
         /\ UNCHANGED <<messageQueue, messageResolvers, result>>
  ELSE IF Len(messageQueue) > 0
    THEN /\ messageQueue' = Tail(messageQueue)
         /\ pc' = [pc EXCEPT ![c] = "yielded"]
         /\ val' = [val EXCEPT ![c] = Val(Head(messageQueue), Null, NoId)]
         /\ delivered' = Append(delivered, Head(messageQueue))
         /\ UNCHANGED <<queuedInitMessage, messageResolvers, result>>
  ELSE IF pumpError # Null
    THEN /\ pc' = [pc EXCEPT ![c] = "done"]
         /\ result' = [result EXCEPT ![c] = pumpError]
         /\ val' = [val EXCEPT ![c] = NoVal]
         /\ UNCHANGED <<queuedInitMessage, messageQueue, messageResolvers, delivered>>
  ELSE IF pumpClosed
    THEN /\ pc' = [pc EXCEPT ![c] = "done"]
         /\ result' = [result EXCEPT ![c] = "ended"]
         /\ val' = [val EXCEPT ![c] = NoVal]
         /\ UNCHANGED <<queuedInitMessage, messageQueue, messageResolvers, delivered>>
    ELSE /\ messageResolvers' = Append(messageResolvers, c)
         /\ pc' = [pc EXCEPT ![c] = "parked"]
         /\ val' = [val EXCEPT ![c] = NoVal]
         /\ UNCHANGED <<queuedInitMessage, messageQueue, result, delivered>>

\* A mutation of StreamPull: the stream goes on pulling after a result.
StreamPull_PastResult(c) ==
  /\ \/ pc[c] = "idle" /\ initialized
     \/ pc[c] = "after_init"
     \/ pc[c] = "yielded"
  /\ readSdkMessage(c)
  /\ UNCHANGED <<optionVars, initialized, identity, pumpRunning, pumpClosed, pumpError,
                 droppedMessageCount, initPromise, initResolver, initRejecter,
                 pendingInitMessage, approvalBarrier, approvalBarrierResolve,
                 transportVars, pumpVars, envVars, writes, warns, observed, callbackCalls, calledDuring, callbackResults>>

\* A mutation of StreamPull: the pull that throws the stored error clears it.
StreamPull_ConsumesError(c) ==
  /\ \/ pc[c] = "idle" /\ initialized
     \/ pc[c] = "after_init"
     \/ pc[c] = "yielded" /\ val[c].msg.type # "result"
  /\ IF queuedInitMessage = NoMsg /\ messageQueue = <<>> /\ pumpError # Null
       THEN /\ pc' = [pc EXCEPT ![c] = "done"]
            /\ result' = [result EXCEPT ![c] = pumpError]
            /\ val' = [val EXCEPT ![c] = NoVal]
            /\ pumpError' = Null
            /\ UNCHANGED <<queuedInitMessage, messageQueue, messageResolvers, delivered>>
       ELSE /\ readSdkMessage(c)
            /\ UNCHANGED pumpError
  /\ UNCHANGED <<optionVars, initialized, identity, pumpRunning, pumpClosed,
                 droppedMessageCount, initPromise, initResolver, initRejecter,
                 pendingInitMessage, approvalBarrier, approvalBarrierResolve,
                 transportVars, pumpVars, envVars, writes, warns, observed, callbackCalls, calledDuring, callbackResults>>

\* The consumer asks stream() for its first message (session initialized, or
\* its initialize() returned), or for the next one after a yield.
StreamPull(c) ==
  /\ \/ pc[c] = "idle" /\ initialized
     \/ pc[c] = "after_init"
     \/ pc[c] = "yielded" /\ val[c].msg.type # "result"
  /\ readSdkMessage(c)
  /\ UNCHANGED <<optionVars, initialized, identity, pumpRunning, pumpClosed, pumpError,
                 droppedMessageCount, initPromise, initResolver, initRejecter,
                 pendingInitMessage, approvalBarrier, approvalBarrierResolve,
                 transportVars, pumpVars, envVars, writes, warns, observed, callbackCalls, calledDuring, callbackResults>>

\* The consumer resumes stream() after a result message: the generator returns.
StreamStop(c) ==
  /\ pc[c] = "yielded"
  /\ val[c].msg.type = "result"
  /\ pc' = [pc EXCEPT ![c] = "done"]
  /\ result' = [result EXCEPT ![c] = "result"]
  /\ UNCHANGED <<optionVars, sessionVars, transportVars, pumpVars, val, envVars, obsVars>>

\* -------------------------------------------------------------------- close()
\* A mutation of Close: the barrier is left as it is.
Close_NoRelease ==
  /\ closeCalled' = TRUE
  /\ process' = FALSE
  /\ closed' = TRUE
  /\ pumpPc' = IF pumpPc = "parked" THEN "ready" ELSE pumpPc
  /\ UNCHANGED <<optionVars, sessionVars, transportQueue, pumpReq, pumpRelease,
                 pumpWriteOk, callVars, arrived, now, promptVars, obsVars>>

\* A mutation of Close: the child is killed but the transport is not marked
\* closed.
Close_ProcessOnly ==
  /\ closeCalled' = TRUE
  /\ releaseApprovalBarrier
  /\ process' = FALSE
  /\ closed' = closed
  /\ pumpPc' = IF pumpPc = "parked" THEN "ready" ELSE pumpPc
  /\ UNCHANGED <<optionVars, initialized, identity, pumpRunning, pumpClosed, pumpError,
                 messageQueue, messageResolvers, queuedInitMessage, droppedMessageCount,
                 initPromise, initResolver, initRejecter, pendingInitMessage,
                 transportQueue, pumpReq, pumpRelease, pumpWriteOk, val, result,
                 arrived, now, promptVars, obsVars>>

\* close(): releaseApprovalBarrier, then transport.close(), which kills the
\* child and resolves the parked reader with null.
Close ==
  /\ closeCalled' = TRUE
  /\ releaseApprovalBarrier
  /\ process' = FALSE
  /\ closed' = TRUE
  /\ pumpPc' = IF pumpPc = "parked" THEN "ready" ELSE pumpPc
  /\ UNCHANGED <<optionVars, initialized, identity, pumpRunning, pumpClosed, pumpError,
                 messageQueue, messageResolvers, queuedInitMessage, droppedMessageCount,
                 initPromise, initResolver, initRejecter, pendingInitMessage,
                 transportQueue, pumpReq, pumpRelease, pumpWriteOk, val, result,
                 arrived, now, promptVars, obsVars>>

\* ------------------------------------------------------------ the pump's steps
\* Reading, translating and delivering frames.
PumpCore ==
  \/ PumpFrame
  \/ PumpPark
  \/ PumpEnd

\* Finishing the handling of a can_use_tool request.
PumpPermission ==
  \/ PumpReleaseBarrier
  \/ PumpFail

\* ---------------------------------------------- permission barrier scenario
\* A session with a canUseTool callback; the application initializes, sends,
\* aborts and closes while the child emits init frames and permission requests.
BarrierShapes == {WireInit, WireCanUseTool}
BarrierOutcomes == {o \in CallbackOutcomes : o.kind \in {"allow", "throw"} /\ o.updatedInput = NoOption}
BarrierInits == {"i1"}
BarrierSends == {"s1"}
BarrierAborts == {"a1"}

InitBarrier == SessionInit({"default"}, {TRUE}, {NoSizeOption})

NextBarrier ==
  \/ \E shapes \in SeqsUpTo(BarrierShapes, MaxBarrierFrames) :
       ChunkArrives(shapes, MaxBarrierFrames)
  \/ PumpCore
  \/ PumpPermission
  \/ \E o \in BarrierOutcomes : CallbackSettles(o)
  \/ \E c \in BarrierInits : InitializeCall(c)
  \/ \E c \in BarrierSends : LazyInitialize(c)
  \/ \E c \in BarrierInits \cup BarrierSends : Connected(c)
  \/ \E c \in BarrierInits \cup BarrierSends : InitSettled(c)
  \/ \E c \in BarrierSends : SendCall(c)
  \/ \E c \in BarrierSends : SendWrite(c)
  \/ \E c \in BarrierAborts : AbortCall(c)
  \/ \E c \in BarrierAborts : AbortWrite(c)
  \/ Close

SpecBarrier == InitBarrier /\ [][NextBarrier]_vars

\* --------------------------------------------------- permission scenario
\* Sessions of every permission mode, with and without a canUseTool
\* callback; the application initializes and closes while the child emits
\* init frames and permission requests, and may exit.
PermShapes == {WireInit, WireCanUseTool}
PermModes == {"default", "acceptEdits", "bypassPermissions"}
PermInits == {"i1"}

InitPerm == SessionInit(PermModes, BOOLEAN, {NoSizeOption})

NextPerm ==
  \/ \E shapes \in SeqsUpTo(PermShapes, MaxPermFrames) :
       ChunkArrives(shapes, MaxPermFrames)
  \/ ProcessExit
  \/ PumpCore
  \/ PumpPermission
  \/ \E o \in CallbackOutcomes : CallbackSettles(o)
  \/ \E c \in PermInits : InitializeCall(c)
  \/ \E c \in PermInits : Connected(c)
  \/ \E c \in PermInits : InitSettled(c)
  \/ Close

SpecPerm == InitPerm /\ [][NextPerm]_vars

\* ------------------------------------------------------ delivery scenario
\* Sessions of queue capacity 1 and 2; the application initializes and
\* streams while the child emits init, assistant, result
\* and user_message frames.
QueueShapes == {WireInit, WireAssistant, WireResult, WireUserMessage}
QueueSizes == {SizeOption(1), SizeOption(2)}
QueueInits == {"i1"}
QueueStreams == {"r1"}

InitQueue == SessionInit({"default"}, {FALSE}, QueueSizes)

NextQueue ==
  \/ \E shapes \in SeqsUpTo(QueueShapes, MaxQueueFrames) :
       ChunkArrives(shapes, MaxQueueFrames)
  \/ PumpCore
  \/ \E c \in QueueInits : InitializeCall(c)
  \/ \E c \in QueueStreams : LazyInitialize(c)
  \/ \E c \in QueueInits \cup QueueStreams : Connected(c)
  \/ \E c \in QueueInits \cup QueueStreams : InitSettled(c)
  \/ \E c \in QueueStreams : StreamPull(c)
  \/ \E c \in QueueStreams : StreamStop(c)
  \/ Close

SpecQueue == InitQueue /\ [][NextQueue]_vars

\* ------------------------------------------------------ lifecycle scenario
\* The application calls initialize() twice, streams and closes, while the
\* child emits init and assistant frames and may exit, and connect() may
\* fail.
LifeShapes == {WireInit, WireAssistant}
LifeInits == {"i1", "i2"}
LifeStreams == {"r1"}

InitLife == SessionInit({"default"}, {FALSE}, {SizeOption(1), NoSizeOption})

NextLife ==
  \/ \E shapes \in SeqsUpTo(LifeShapes, MaxLifeFrames) :
       ChunkArrives(shapes, MaxLifeFrames)
  \/ ProcessExit
  \/ PumpCore
  \/ \E c \in LifeInits : InitializeCall(c)
  \/ \E c \in LifeStreams : LazyInitialize(c)
  \/ \E c \in LifeInits \cup LifeStreams : ConnectFails(c)
  \/ \E c \in LifeInits \cup LifeStreams : Connected(c)
  \/ \E c \in LifeInits \cup LifeStreams : InitSettled(c)
  \/ \E c \in LifeStreams : StreamPull(c)
  \/ Close

\* The event loop runs every scheduled continuation: the pump's steps and
\* the continuations of connect() and of the init promise. Nothing obliges
\* the application to call, the child to write or to exit.
FairLife ==
  /\ WF_vars(PumpCore)
  /\ WF_vars(\E c \in LifeInits \cup LifeStreams : ConnectFails(c) \/ Connected(c))
  /\ \A c \in LifeInits \cup LifeStreams : WF_vars(InitSettled(c))

SpecLife == InitLife /\ [][NextLife]_vars /\ FairLife

\* ----------------------------------------------------- callback scenario
\* A session with a canUseTool callback that allows, denies or throws; the
\* application initializes and sends while the child emits init frames and
\* permission requests, and may exit.
CallbackShapes == {WireInit, WireCanUseTool}
CallbackInits == {"i1"}
CallbackSends == {"s1"}

InitCallback == SessionInit({"default"}, {TRUE}, {NoSizeOption})

NextCallback ==
  \/ \E shapes \in SeqsUpTo(CallbackShapes, MaxCallbackFrames) :
       ChunkArrives(shapes, MaxCallbackFrames)
  \/ ProcessExit
  \/ PumpCore
  \/ PumpPermission
  \/ \E o \in CallbackOutcomes : CallbackSettles(o)
  \/ \E c \in CallbackInits : InitializeCall(c)
  \/ \E c \in CallbackInits : Connected(c)
  \/ \E c \in CallbackInits : InitSettled(c)
  \/ \E c \in CallbackSends : SendCall(c)
  \/ \E c \in CallbackSends : SendWrite(c)
  \/ Close

SpecCallback == InitCallback /\ [][NextCallback]_vars

\* ------------------------------------------------------ streams scenario
\* Two stream() consumers on a session with a canUseTool callback and a
\* queue of capacity 1 or the default; the child emits init and assistant
\* frames and permission requests and may exit, and the application may
\* close the session.
StreamsShapes == {WireInit, WireAssistant, WireCanUseTool}
StreamsOutcomes == {o \in CallbackOutcomes : o.kind = "allow" /\ o.updatedInput = NoOption}
StreamsInits == {"i1"}
StreamsStreams == {"r1", "r2"}

InitStreams == SessionInit({"default"}, {TRUE}, {SizeOption(1), NoSizeOption})

NextStreams ==
  \/ \E shapes \in SeqsUpTo(StreamsShapes, MaxStreamsFrames) :
       ChunkArrives(shapes, MaxStreamsFrames)
  \/ ProcessExit
  \/ PumpCore
  \/ PumpPermission
  \/ \E o \in StreamsOutcomes : CallbackSettles(o)
  \/ \E c \in StreamsInits : InitializeCall(c)
  \/ \E c \in StreamsInits : Connected(c)
  \/ \E c \in StreamsInits : InitSettled(c)
  \/ \E c \in StreamsStreams : StreamPull(c)
  \/ Close

SpecStreams == InitStreams /\ [][NextStreams]_vars

\* ---- Scenario: send() and stream() on a session never initialized ----
\* The application calls send() and stream() without calling initialize();
\* the CLI may be missing, the child may exit, the session may be closed.

LazyShapes == {WireInit, WireAssistant}
LazySends == {"s1"}
LazyStreams == {"r1"}

InitLazy == SessionInit({"default"}, {FALSE}, {NoSizeOption})

NextLazy ==
  \/ \E shapes \in SeqsUpTo(LazyShapes, MaxLazyFrames) :
       ChunkArrives(shapes, MaxLazyFrames)
  \/ ProcessExit
  \/ PumpCore
  \/ \E c \in LazySends \cup LazyStreams : LazyInitialize(c)
  \/ \E c \in LazySends \cup LazyStreams : ConnectFails(c)
  \/ \E c \in LazySends \cup LazyStreams : Connected(c)
  \/ \E c \in LazySends \cup LazyStreams : InitSettled(c)
  \/ \E c \in LazySends : SendCall(c)
  \/ \E c \in LazySends : SendWrite(c)
  \/ \E c \in LazyStreams : StreamPull(c)
  \/ Close

SpecLazy == InitLazy /\ [][NextLazy]_vars

\* ---- Scenario: two abort() calls ----
\* The application initializes the session and calls abort() twice, at any
\* moments; the millisecond clock read by Date.now() advances between
\* event-loop turns.

\* The clock advances by one millisecond.
ClockTick ==
  /\ now < MaxClock
  /\ now' = now + 1
  /\ UNCHANGED <<optionVars, sessionVars, transportVars, pumpVars, callVars,
                 arrived, closeCalled, promptVars, obsVars>>

AbortShapes == {WireInit, WireCanUseTool}
AbortOutcomes == {o \in CallbackOutcomes : o.kind = "allow" /\ o.updatedInput = NoOption}
AbortInits == {"i1"}
AbortAborts == {"a1", "a2"}

InitAbort == SessionInit({"default"}, {TRUE}, {NoSizeOption})

NextAbort ==
  \/ \E shapes \in SeqsUpTo(AbortShapes, MaxAbortFrames) :
       ChunkArrives(shapes, MaxAbortFrames)
  \/ ClockTick
  \/ PumpCore
  \/ PumpPermission
  \/ \E o \in AbortOutcomes : CallbackSettles(o)
  \/ \E c \in AbortInits : InitializeCall(c)
  \/ \E c \in AbortInits : Connected(c)
  \/ \E c \in AbortInits : InitSettled(c)
  \/ \E c \in AbortAborts : AbortCall(c)
  \/ \E c \in AbortAborts : AbortWrite(c)
  \/ Close

SpecAbort == InitAbort /\ [][NextAbort]_vars

\* ---- prompt(): one-shot send, read until the result, close ----

\* The send() and stream() calls that prompt() makes on its session.
PromptSend == "s1"
PromptStream == "r1"

\* Session.close with SubprocessTransport.close, as called by prompt().
closeSession ==
  /\ closeCalled' = TRUE
  /\ releaseApprovalBarrier
  /\ process' = FALSE
  /\ closed' = TRUE
  /\ pumpPc' = IF pumpPc = "parked" THEN "ready" ELSE pumpPc

\* prompt() creates the session and calls send(), which begins with the lazy
\* initialization of the fresh session.
PromptCall ==
  /\ promptPc = "idle"
  /\ pc[PromptSend] = "idle"
  /\ ~initialized
  /\ pc' = [pc EXCEPT ![PromptSend] = "connecting"]
  /\ calledDuring' = CalledNow(PromptSend)
  /\ promptPc' = "send"
  /\ UNCHANGED <<optionVars, sessionVars, transportVars, pumpVars, val, result,
                 arrived, closeCalled, now, promptValue,
                 writes, delivered, warns, observed, callbackCalls, callbackResults>>

\* send() resolved: the for-await loop makes the first pull of stream()
\* (the session is initialized, since send() initialized it).
PromptStreamStart ==
  /\ promptPc = "send"
  /\ pc[PromptSend] = "done"
  /\ result[PromptSend] = "ok"
  /\ initialized
  /\ readSdkMessage(PromptStream)
  /\ promptPc' = "stream"
  /\ UNCHANGED <<optionVars, initialized, identity, pumpRunning, pumpClosed, pumpError,
                 droppedMessageCount, initPromise, initResolver, initRejecter,
                 pendingInitMessage, approvalBarrier, approvalBarrierResolve,
                 transportVars, pumpVars, arrived, closeCalled, now, promptValue,
                 writes, warns, observed, callbackCalls, calledDuring, callbackResults>>

\* The loop body saw a message that is not a result: the next pull.
PromptPull ==
  /\ promptPc = "stream"
  /\ pc[PromptStream] = "yielded"
  /\ val[PromptStream].msg.type # "result"
  /\ readSdkMessage(PromptStream)
  /\ UNCHANGED <<optionVars, initialized, identity, pumpRunning, pumpClosed, pumpError,
                 droppedMessageCount, initPromise, initResolver, initRejecter,
                 pendingInitMessage, approvalBarrier, approvalBarrierResolve,
                 transportVars, pumpVars, envVars,
                 writes, warns, observed, callbackCalls, calledDuring, callbackResults>>

\* The ways out of the try block of prompt().
PromptSendThrew ==
  promptPc = "send" /\ pc[PromptSend] = "done" /\ result[PromptSend] # "ok"
PromptGotResult ==
  promptPc = "stream" /\ pc[PromptStream] = "yielded" /\ val[PromptStream].msg.type = "result"
PromptStreamEnded ==
  promptPc = "stream" /\ pc[PromptStream] = "done" /\ result[PromptStream] = "ended"
PromptStreamThrew ==
  promptPc = "stream" /\ pc[PromptStream] = "done" /\ result[PromptStream] # "ended"

\* A mutation of PromptOutcome: a stream that ended without a result makes
\* prompt() throw.
PromptOutcome_EndedThrows ==
  IF PromptSendThrew THEN PromptValue("threw", NoMsg, result[PromptSend])
  ELSE IF PromptGotResult THEN PromptValue("returned", val[PromptStream].msg, Null)
  ELSE PromptValue("threw", NoMsg, result[PromptStream])

\* What prompt() returns or throws on each way out.
PromptOutcome ==
  IF PromptSendThrew THEN PromptValue("threw", NoMsg, result[PromptSend])
  ELSE IF PromptGotResult THEN PromptValue("returned", val[PromptStream].msg, Null)
  ELSE IF PromptStreamEnded THEN PromptValue("returned", NoResultReceived, Null)
  ELSE PromptValue("threw", NoMsg, result[PromptStream])

\* prompt() leaves the try block: the finally block closes the session and
\* the call returns or throws.
PromptExit ==
  /\ PromptSendThrew \/ PromptGotResult \/ PromptStreamEnded \/ PromptStreamThrew
  /\ promptValue' = PromptOutcome
  /\ promptPc' = "done"
  /\ closeSession
  /\ UNCHANGED <<optionVars, initialized, identity, pumpRunning, pumpClosed, pumpError,
                 messageQueue, messageResolvers, queuedInitMessage, droppedMessageCount,
                 initPromise, initResolver, initRejecter, pendingInitMessage,
                 transportQueue, pumpReq, pumpRelease, pumpWriteOk, val, result,
                 arrived, now, obsVars>>

\* ---- Scenario: one prompt() call ----
\* The only calls on the session are those prompt() makes. The CLI may be
\* missing and the child may exit at any moment.

PromptShapes == {WireInit, WireAssistant, WireResult, WireCanUseTool}
PromptOutcomes == {o \in CallbackOutcomes : o.kind = "allow" /\ o.updatedInput = NoOption}

InitPrompt == SessionInit({"default"}, {TRUE}, {NoSizeOption})

NextPrompt ==
  \/ \E shapes \in SeqsUpTo(PromptShapes, MaxPromptFrames) :
       ChunkArrives(shapes, MaxPromptFrames)
  \/ ProcessExit
  \/ PumpCore
  \/ PumpPermission
  \/ \E o \in PromptOutcomes : CallbackSettles(o)
  \/ PromptCall
  \/ ConnectFails(PromptSend)
  \/ Connected(PromptSend)
  \/ InitSettled(PromptSend)
  \/ SendCall(PromptSend)
  \/ SendWrite(PromptSend)
  \/ PromptStreamStart
  \/ PromptPull
  \/ PromptExit

SpecPrompt == InitPrompt /\ [][NextPrompt]_vars

\* ---- Scenario: frames the translation skips ----
\* The child sends, among init and assistant frames, frames that
\* transformMessage maps to null: an unknown type, an assistant message
\* without content, control requests that are not can_use_tool.

NextNoise ==
  \/ \E shapes \in SeqsUpTo({WireInit, WireAssistant, WireUnknown, WireAssistantEmpty,
                               WireOtherControl, WireControlNoRequest}, MaxNoiseFrames) :
       ChunkArrives(shapes, MaxNoiseFrames)
  \/ PumpCore
  \/ \E c \in {"i1"} : InitializeCall(c)
  \/ \E c \in {"i1"} : Connected(c)
  \/ \E c \in {"i1"} : InitSettled(c)
  \/ \E c \in {"r1"} : StreamPull(c)
  \/ Close

SpecNoise == SessionInit({"default"}, {FALSE}, {NoSizeOption}) /\ [][NextNoise]_vars

\* ---- Scenario: results, successful or not ----
\* The child sends init, assistant and result frames, the results with
\* subtype success or error_during_execution; two stream() calls pull.

NextResult ==
  \/ \E shapes \in SeqsUpTo({WireInit, WireAssistant, WireResult, WireResultError}, MaxResultFrames) :
       ChunkArrives(shapes, MaxResultFrames)
  \/ PumpCore
  \/ \E c \in {"i1"} : InitializeCall(c)
  \/ \E c \in {"i1"} : Connected(c)
  \/ \E c \in {"i1"} : InitSettled(c)
  \/ \E c \in {"r1", "r2"} : StreamPull(c)
  \/ \E c \in {"r1", "r2"} : StreamStop(c)
  \/ Close

SpecResult == SessionInit({"default"}, {FALSE}, {NoSizeOption}) /\ [][NextResult]_vars

\* ---- Scenario: tool calls ----
\* The child sends tool_call_message frames of every shape; one stream()
\* consumer pulls.

NextToolCall ==
  \/ \E shapes \in SeqsUpTo({WireInit, WireToolCallPlural, WireToolCallSingular,
                               WireToolCallEmptyList, WireToolCallBadArgs,
                               WireToolCallNullEntry, WireToolCallNeither},
                              MaxToolCallFrames) :
       ChunkArrives(shapes, MaxToolCallFrames)
  \/ PumpCore
  \/ \E c \in {"i1"} : InitializeCall(c)
  \/ \E c \in {"i1"} : Connected(c)
  \/ \E c \in {"i1"} : InitSettled(c)
  \/ \E c \in {"r1"} : StreamPull(c)
  \/ Close

SpecToolCall == SessionInit({"default"}, {FALSE}, {NoSizeOption}) /\ [][NextToolCall]_vars

\* ---- Scenario: every operation of an initialized session ----
\* The application initializes, sends, aborts, streams and closes while the
\* child emits init frames, assistant messages and permission requests that
\* a canUseTool callback allows.

NextOwner ==
  \/ \E shapes \in SeqsUpTo({WireInit, WireAssistant, WireCanUseTool}, MaxOwnerFrames) :
       ChunkArrives(shapes, MaxOwnerFrames)
  \/ PumpCore
  \/ PumpPermission
  \/ \E o \in {x \in CallbackOutcomes : x.kind = "allow" /\ x.updatedInput = NoOption} :
       CallbackSettles(o)
  \/ \E c \in {"i1"} : InitializeCall(c)
  \/ \E c \in {"i1"} : Connected(c)
  \/ \E c \in {"i1"} : InitSettled(c)
  \/ \E c \in {"s1"} : SendCall(c)
  \/ \E c \in {"s1"} : SendWrite(c)
  \/ \E c \in {"a1"} : AbortCall(c)
  \/ \E c \in {"a1"} : AbortWrite(c)
  \/ \E c \in {"r1"} : StreamPull(c)
  \/ Close

SpecOwner == SessionInit({"default"}, {TRUE}, {SizeOption(1)}) /\ [][NextOwner]_vars

\* ---- Scenario: queue capacities, eviction disabled or not ----
\* The session is constructed with messageQueueSize 0, -1 or 1; one
\* stream() consumer pulls at any moments.

NextEvict ==
  \/ \E shapes \in SeqsUpTo({WireInit, WireAssistant}, MaxEvictFrames) :
       ChunkArrives(shapes, MaxEvictFrames)
  \/ PumpCore
  \/ \E c \in {"i1"} : InitializeCall(c)
  \/ \E c \in {"i1"} : Connected(c)
  \/ \E c \in {"i1"} : InitSettled(c)
  \/ \E c \in {"r1"} : StreamPull(c)
  \/ Close

SpecEvict ==
  /\ SessionInit({"default"}, {FALSE}, {SizeOption(0), SizeOption(0 - 1), SizeOption(1)})
  /\ [][NextEvict]_vars

\* ------------------------------------------------------------------ claims
UserWrite(i, c) == writes[i].type = "user" /\ writes[i].by = c
ResponseWrite(i, requestId) ==
  writes[i].type = "control_response" /\ writes[i].request_id = ToString(requestId)

\* C1: a send() made while the canUseTool callback of a permission request
\* is pending writes its user frame only after the control_response for that
\* request has been written (so not before the callback has resolved).
C1_BarrierSerialization ==
  \A c \in SendCalls :
    calledDuring[c] # NoId =>
      /\ (pumpPc = "in_callback" /\ pumpReq = calledDuring[c]) =>
           ~ \E j \in 1..Len(writes) : UserWrite(j, c)
      /\ \A j \in 1..Len(writes) :
           UserWrite(j, c) => \E i \in 1..(j - 1) : ResponseWrite(i, calledDuring[c])

\* A send() made during a pending callback has written its user frame.
C1_Witness ==
  \E c \in SendCalls :
    /\ calledDuring[c] # NoId
    /\ \E j \in 1..Len(writes) : UserWrite(j, c)

\* C2: no user frame and no interrupt request is written while the barrier
\* is engaged.
C2_NoWriteWhileEngaged ==
  [][(Len(writes') = Len(writes) + 1
      /\ (writes'[Len(writes')].type = "user" \/ writes'[Len(writes')].subtype = "interrupt"))
     => approvalBarrier = NoId]_vars

\* The messages the pump obtained from the frames it has observed, in the
\* order it observed them.
Translated(frames) ==
  SelectSeq([i \in 1..Len(frames) |-> transformMessage(frames[i])], LAMBDA m : m # NoMsg)
NonInit(msgs) == SelectSeq(msgs, LAMBDA m : m.type # "init")
\* Frame ids are arrival numbers: a sequence is in arrival order, without
\* repetition, exactly when its ids increase.
InArrivalOrder(msgs) == \A i, j \in 1..Len(msgs) : i < j => msgs[i].id < msgs[j].id
NoConsumer == delivered = <<>> /\ messageResolvers = <<>>

C4_OldestDrop ==
  LET pushed == NonInit(Translated(observed))
      k == Len(pushed)
  IN (maxQueueSize > 0 /\ NoConsumer /\ k > maxQueueSize) =>
       /\ messageQueue = SubSeq(pushed, k - maxQueueSize + 1, k)
       /\ droppedMessageCount = k - maxQueueSize
       /\ warns = [i \in 1..(k - maxQueueSize) |-> i]

\* More messages than the capacity were pushed after an init message, with
\* nothing pulled.
C4_Witness ==
  /\ maxQueueSize > 0
  /\ NoConsumer
  /\ Len(NonInit(Translated(observed))) > maxQueueSize
  /\ \E i \in 1..Len(observed) : observed[i].type = "system"

\* C5: the delivered messages, init messages included, are in pump-observed
\* order, and once nothing is left to pull every observed message was
\* delivered or evicted.
C5_DeliveredInObservedOrder ==
  /\ InArrivalOrder(delivered)
  /\ (transportQueue = <<>> /\ messageQueue = <<>> /\ queuedInitMessage = NoMsg
      /\ pumpPc \in {"parked", "closed"})
       => Len(delivered) + droppedMessageCount = Len(Translated(observed))

\* C5 (amended): the delivered non-init messages are in pump-observed order,
\* the queue continues that order, no message is delivered twice, and every
\* observed non-init message is delivered, queued or evicted.
C5_NonInitInOrder ==
  /\ InArrivalOrder(NonInit(delivered) \o messageQueue)
  /\ \A i, j \in 1..Len(delivered) : i # j => delivered[i].id # delivered[j].id
  /\ Len(NonInit(delivered)) + Len(messageQueue) + droppedMessageCount
       = Len(NonInit(Translated(observed)))

\* An init message and a later message were delivered, after an eviction.
C5_Witness ==
  /\ Len(NonInit(delivered)) >= 1
  /\ Len(NonInit(delivered)) < Len(delivered)
  /\ droppedMessageCount > 0

IsPrefix(a, b) == Len(a) <= Len(b) /\ SubSeq(b, 1, Len(a)) = a
\* The messages up to and including the first result message.
UpToResult(msgs) ==
  LET results == {i \in 1..Len(msgs) : msgs[i].type = "result"}
  IN IF results = {} THEN msgs
     ELSE SubSeq(msgs, 1, CHOOSE i \in results : \A j \in results : i <= j)
InitFrames(frames) == {i \in 1..Len(frames) : transformMessage(frames[i]).type = "init"}
\* The only call the application has made is the stream() call c, and the
\* frames observed are an init frame, then frames other than init frames up
\* to the first result, none of them a permission request.
OneStreamOnFreshSession(c) ==
  /\ \A d \in AllCalls \ {c} : pc[d] = "idle"
  /\ observed # <<>> => 1 \in InitFrames(observed)
  /\ \A i \in InitFrames(observed) \ {1} :
       \E j \in 1..(i - 1) : observed[j].type = "result"
  /\ \A i \in 1..Len(observed) : observed[i].type # "control_request"

\* What the stream() call c has yielded is a prefix of want, and all of want
\* once the call has returned after a result.
YieldsThenStops(c, want) ==
  /\ IsPrefix(delivered, want)
  /\ (pc[c] = "done" /\ result[c] = "result") => delivered = want

\* C6: for frames [init, m1..mk, result, ...] without permission requests,
\* one stream() call on a fresh session yields the init message, the
\* translated m1..mk in order and the result, and nothing after it.
C6_StreamEndsOnResult ==
  \A c \in StreamCalls :
    OneStreamOnFreshSession(c) => YieldsThenStops(c, UpToResult(Translated(observed)))

\* C6 (amended): the same, when no message is evicted and the init frame is
\* the only init frame.
C6_StreamEndsOnResultNoLoss ==
  \A c \in StreamCalls :
    (OneStreamOnFreshSession(c) /\ droppedMessageCount = 0 /\ InitFrames(observed) = {1})
      => YieldsThenStops(c, UpToResult(Translated(observed)))

\* A stream() call returned after init, a message and the result.
C6_Witness ==
  \E c \in StreamCalls :
    /\ OneStreamOnFreshSession(c)
    /\ droppedMessageCount = 0
    /\ InitFrames(observed) = {1}
    /\ pc[c] = "done"
    /\ result[c] = "result"
    /\ Len(delivered) = 3

\* No init frame has reached the transport.
NoInitFrame == InitFrames(observed \o transportQueue) = {}
\* Call c is suspended on the init promise.
AwaitsInit(c) == pc[c] = "await_init" /\ val[c] = NoVal

\* C7: when the frame sequence has ended before any init frame, the session
\* is uninitialized with a null identity, and an initialize() call waiting
\* for the init message eventually rejects with 'Failed to initialize
\* session - no init message received'.
C7_NoInitFailure ==
  /\ []((closed /\ NoInitFrame) => (~initialized /\ identity = NoIdentity))
  /\ \A c \in InitCalls :
       (closed /\ NoInitFrame /\ AwaitsInit(c)) ~> (pc[c] = "done" /\ result[c] = ErrNoInit)

\* C8: an initialize() call on an initialized session fails with 'Session
\* already initialized' and changes nothing else: no pump is started, no
\* frame is written, identity, queue and waiters stay as they were.
C8_InitExactlyOnce ==
  [][\A c \in InitCalls :
       (initialized /\ pc[c] = "idle" /\ pc'[c] # "idle") =>
         /\ pc'[c] = "done"
         /\ result'[c] = ErrAlreadyInitialized
         /\ UNCHANGED <<pumpRunning, pumpPc, writes, initialized, identity, messageQueue,
                        messageResolvers, queuedInitMessage, transportVars>>]_vars

\* A second initialize() failed on a session with a queued message.
C8_Witness ==
  \E c \in InitCalls :
    /\ result[c] = ErrAlreadyInitialized
    /\ initialized
    /\ messageQueue # <<>>

\* The can_use_tool requests the pump has observed, and the control
\* responses written.
ToolRequests ==
  {i \in 1..Len(observed) :
     observed[i].type = "control_request" /\ observed[i].subtype = "can_use_tool"}
Responses == {i \in 1..Len(writes) : writes[i].type = "control_response"}
\* Every control response written answers an observed request and carries
\* the given response, and while the transport can be written to every
\* observed request has been answered.
AnsweredWith(response) ==
  /\ \A i \in Responses :
       /\ writes[i].response = response
       /\ \E j \in ToolRequests : writes[i].request_id = ToString(observed[j].id)
  /\ CanWrite =>
       \A j \in ToolRequests :
         \E i \in Responses : writes[i].request_id = ToString(observed[j].id)

\* C9: without a canUseTool callback and in a mode other than
\* bypassPermissions, every can_use_tool request is answered with its
\* request id, behavior deny, the message 'No canUseTool callback
\* registered' and interrupt false, and no response allows.
C9_DefaultDeny ==
  (~canUseTool /\ permissionMode # "bypassPermissions") =>
    /\ AnsweredWith(DenyNoCallback)
    /\ \A i \in Responses :
         /\ writes[i].response.behavior = "deny"
         /\ writes[i].response.message = "No canUseTool callback registered"
         /\ writes[i].response.interrupt = FALSE

\* A request was denied in mode acceptEdits without a callback.
C9_Witness ==
  /\ ~canUseTool
  /\ permissionMode = "acceptEdits"
  /\ Responses # {}

\* C10: in mode bypassPermissions every can_use_tool request is answered
\* with behavior allow, updatedInput null and no updated permissions, with
\* or without a callback, and the callback is never invoked.
C10_Bypass ==
  permissionMode = "bypassPermissions" =>
    /\ AnsweredWith(AllowBypass)
    /\ \A i \in Responses :
         /\ writes[i].response.behavior = "allow"
         /\ writes[i].response.updatedInput = Null
         /\ writes[i].response.updatedPermissions = <<>>
    /\ callbackCalls = <<>>

\* Two requests were allowed in mode bypassPermissions with a callback
\* configured.
C10_Witness ==
  /\ canUseTool
  /\ permissionMode = "bypassPermissions"
  /\ Cardinality(Responses) = 2

\* The control responses written for request requestId.
AnswersTo(requestId) == {i \in Responses : writes[i].request_id = ToString(requestId)}
\* The response owed to what the callback returned or threw.
OwedResponse(response, outcome) ==
  IF outcome.kind = "allow"
    THEN /\ response.behavior = "allow"
         /\ response.updatedInput =
              (IF outcome.updatedInput = NoOption THEN Null ELSE outcome.updatedInput)
    ELSE /\ response.behavior = "deny"
         /\ response.message =
              (IF outcome.kind = "deny" /\ outcome.message # NoOption THEN outcome.message
               ELSE IF outcome.kind = "deny" THEN "Denied by canUseTool callback"
               ELSE IF outcome.kind = "throw" THEN outcome.message
               ELSE "Callback error")

\* C11: the response to a request follows what the callback did: allow with
\* the callback's updatedInput or null, else deny with the callback's
\* message, the exception's message or a fallback; and as long as the
\* transport is open (whatever the callback threw) the request is answered,
\* the pump goes on without a pump error and no send() has rejected.
C11_CallbackResponse ==
  /\ \A k \in 1..Len(callbackResults) :
       /\ \A i \in AnswersTo(callbackResults[k].request) :
            OwedResponse(writes[i].response, callbackResults[k].outcome)
       /\ ~closed => AnswersTo(callbackResults[k].request) # {}
  /\ ~closed =>
       /\ pumpError = Null
       /\ pumpPc # "closed"
       /\ \A c \in SendCalls : result[c] \in {Null, "ok"}

\* The callback threw while a send() was blocked, and the send() went
\* through after the pump had answered and moved on.
C11_Witness ==
  /\ ~closed
  /\ \E k \in 1..Len(callbackResults) :
       /\ callbackResults[k].outcome.kind = "throw"
       /\ \E c \in SendCalls : calledDuring[c] = callbackResults[k].request /\ result[c] = "ok"
  /\ pumpPc = "parked"

\* The pump is inside handleCanUseTool.
HandlingRequest == pumpPc \in {"in_callback", "written"}

\* C12: whenever the pump is not handling a can_use_tool request the
\* barrier is released, whichever way the handling ended.
C12_BarrierReleased ==
  ~HandlingRequest => (approvalBarrier = NoId /\ approvalBarrierResolve = NoId)

\* The handling of a request ended with a failed control_response write,
\* and the barrier is released.
C12_Witness ==
  /\ callbackResults # <<>>
  /\ AnswersTo(callbackResults[Len(callbackResults)].request) = {}
  /\ pumpPc = "closed"
  /\ approvalBarrier = NoId

\* The state close() leaves behind: barrier released and nobody blocked on
\* it, transport closed, its reader not parked.
AfterClose ==
  /\ closeCalled
  /\ approvalBarrier = NoId
  /\ approvalBarrierResolve = NoId
  /\ \A c \in AllCalls : pc[c] # "blocked"
  /\ ~process
  /\ closed
  /\ pumpPc # "parked"

\* C13: close() can be called in every state; it resumes every send() and
\* abort() blocked on the barrier, and a call resumed after close() ends
\* (rejecting with 'Transport not connected'); close() leaves a state in
\* which a further close() changes nothing.
C13_CloseReleases ==
  /\ [](ENABLED Close)
  /\ [][Close => /\ AfterClose'
                 /\ \A c \in SendCalls \cup AbortCalls :
                      pc[c] = "blocked" => pc'[c] = "ready"]_vars
  /\ [][\A c \in SendCalls \cup AbortCalls :
          (closeCalled /\ pc[c] = "ready" /\ pc'[c] # "ready") =>
            (pc'[c] = "done" /\ result'[c] = ErrNotConnected)]_vars
  /\ [][(AfterClose /\ Close) => UNCHANGED vars]_vars

\* A call that was blocked on the barrier was resumed by close() (its
\* request was never answered) and rejected.
C13_Witness ==
  /\ closeCalled
  /\ \E c \in SendCalls \cup AbortCalls :
       /\ calledDuring[c] # NoId
       /\ AnswersTo(calledDuring[c]) = {}
       /\ result[c] = ErrNotConnected

\* C14: once the transport is closed (close() was called, or the child has
\* exited or failed), a stream() pull that is parked, whether it parked
\* before or after, eventually completes.
C14_NoHang ==
  \A c \in StreamCalls : (closed /\ pc[c] = "parked") ~> (pc[c] # "parked")

\* The pump's loop fails in this step (the catch block runs).
PumpFails == pumpPc = "failing" /\ pumpPc' = "closed"
\* The stream() call c makes a pull in this step.
Pulls(c) ==
  /\ pc[c] \in {"idle", "after_init", "yielded"}
  /\ pc'[c] \in {"yielded", "parked", "done"}
  /\ pc'[c] # pc[c] \/ val'[c] # val[c]
\* What the failing pump does: the error is stored and every parked waiter
\* gets the terminal signal.
FailureStoredWaitersEnded ==
  PumpFails =>
    /\ pumpError' # Null
    /\ messageResolvers' = <<>>
    /\ \A c \in StreamCalls :
         pc[c] = "parked" => (pc'[c] = "done" /\ result'[c] = "ended")

\* C15: when the pump fails the error is stored and every parked waiter is
\* resolved with the terminal signal, and the next pull on an empty queue
\* throws the stored error.
C15_FailureSurfaces ==
  /\ [][FailureStoredWaitersEnded]_vars
  /\ [][\A c \in StreamCalls :
          (pumpError # Null /\ messageQueue = <<>> /\ Pulls(c)) =>
            (pc'[c] = "done" /\ result'[c] = pumpError)]_vars

\* C15 (amended): the same, the pull that throws being the next one made
\* when neither the init slot nor the queue holds a message.
C15_FailureSurfacesWhenDrained ==
  /\ [][FailureStoredWaitersEnded]_vars
  /\ [][\A c \in StreamCalls :
          (pumpError # Null /\ messageQueue = <<>> /\ queuedInitMessage = NoMsg /\ Pulls(c)) =>
            (pc'[c] = "done" /\ result'[c] = pumpError)]_vars

\* One stream() call was parked when the pump failed and got the terminal
\* signal; the other pulled afterwards and the stored error was thrown.
C15_Witness ==
  /\ pumpError # Null
  /\ \E c, d \in StreamCalls :
       /\ pc[c] = "done" /\ result[c] = "ended"
       /\ pc[d] = "done" /\ result[d] = pumpError

\* The stream() calls in which the stored error was thrown.
Threw == {c \in StreamCalls : pc[c] = "done" /\ result[c] = ErrNotConnected}

\* C16: the stored error is thrown by one pull only; later pulls of the
\* session return the terminal signal.
C16_ErrorThrownOnce == Cardinality(Threw) <= 1

\* C16 (amended): the stored error is never cleared, so every pull made
\* with nothing left to deliver throws it; one stream() call sees it at
\* most once, since the call ends when its pull throws.
C16_ErrorKept ==
  /\ [][pumpError # Null => pumpError' = pumpError]_vars
  /\ [][\A c \in StreamCalls :
          (c \in Threw /\ messageQueue = <<>> /\ queuedInitMessage = NoMsg) =>
            \A d \in StreamCalls : Pulls(d) => (d # c /\ pc'[d] = "done" /\ result'[d] = pumpError)]_vars

\* The stored error was thrown in two stream() calls.
C16_Witness == Cardinality(Threw) = 2

\* C17: the identity triple is all null until initialization succeeds, is
\* set in the step that sets the initialized flag, and never changes
\* afterwards, whatever frames arrive and whatever calls are made.
C17_IdentityFixed ==
  /\ [](initialized <=> identity # NoIdentity)
  /\ [][identity # NoIdentity => identity' = identity]_vars

\* The `initialize` request was written before the i-th written frame.
InitializeWrittenBefore(i) ==
  \E j \in 1..(i - 1) :
    writes[j].type = "control_request" /\ writes[j].subtype = "initialize"
\* The init message has been received and initialize() has completed.
InitReceived == initialized /\ InitFrames(observed) # {}
\* The send() call c was rejected.
Rejected(c) == pc[c] = "done" /\ result[c] \notin {Null, "ok"}

\* C18: a `user` frame is written only after the `initialize` request was
\* written and the init message received; stream() yields nothing before
\* then; a send() whose initialization fails rejects and writes no `user`
\* frame.
C18_LazyInit ==
  /\ [](\A i \in 1..Len(writes) :
          writes[i].type = "user" => (InitReceived /\ InitializeWrittenBefore(i)))
  /\ [](delivered # <<>> =>
          (InitReceived /\ InitializeWrittenBefore(Len(writes) + 1)))
  /\ [][\A c \in SendCalls :
          (/\ pc[c] \in {"connecting", "await_init"}
           /\ pc'[c] \notin {"connecting", "await_init"}
           /\ ~initialized') =>
            (Rejected(c)' /\ \A i \in 1..Len(writes') : ~UserWrite(i, c)')]_vars

\* Both cases happened in one run: the stream() call, made on the
\* uninitialized session, has yielded a message after initializing, and
\* the send() call, whose initialization failed, was rejected and wrote
\* nothing.
C18_Witness ==
  /\ \E c \in StreamCalls : calledDuring[c] = NoId /\ pc[c] = "yielded"
  /\ \E c \in SendCalls : result[c] \in {ErrCliNotFound, ErrNoInit} /\ ~\E i \in 1..Len(writes) : UserWrite(i, c)

\* The messages of the sequence msgs are pairwise different messages.
Distinct(msgs) ==
  \A i, j \in 1..Len(msgs) : i # j => msgs[i].id # msgs[j].id
\* The messages the session still holds for delivery.
Held == IF queuedInitMessage = NoMsg THEN messageQueue ELSE <<queuedInitMessage>> \o messageQueue

\* C19: with concurrent stream() consumers no message is returned by two
\* pulls, and no message returned by a pull is still held in the queue or in
\* the init slot.
C19_ConsumedOnce ==
  /\ Distinct(delivered \o Held)
  /\ \A c, d \in StreamCalls :
       (c # d /\ pc[c] = "yielded" /\ pc[d] = "yielded") => val[c].msg.id # val[d].msg.id

\* Two concurrent consumers each hold a message of their own, after three
\* messages were returned by pulls.
C19_Witness ==
  /\ \A c \in StreamsStreams : pc[c] = "yielded"
  /\ Len(delivered) >= 3

\* The interrupt requests written by the abort() call c.
Interrupts(c) ==
  {i \in 1..Len(writes) :
     writes[i].type = "control_request" /\ writes[i].subtype = "interrupt" /\ writes[i].by = c}
\* An abort() call writes nothing while it waits for the barrier and one
\* interrupt request when it completes.
OneInterruptPerAbort ==
  \A c \in AbortCalls :
    Cardinality(Interrupts(c)) = (IF pc[c] = "done" /\ result[c] = "ok" THEN 1 ELSE 0)

\* C20: an abort() call writes exactly one interrupt request, after the
\* barrier cleared, and the request ids of two abort() calls differ.
C20_InterruptIds ==
  /\ OneInterruptPerAbort
  /\ \A c, d \in AbortCalls : \A i \in Interrupts(c) : \A j \in Interrupts(d) :
       c # d => writes[i].request_id # writes[j].request_id

\* The positions in the sequence msgs of the result messages.
ResultsIn(msgs) == {i \in 1..Len(msgs) : msgs[i].type = "result"}
\* The first result message of the non-empty set of positions at.
FirstOf(msgs, at) == msgs[CHOOSE i \in at : \A j \in at : i <= j]

\* C21: prompt() sends the message, reads the stream up to the first result
\* and returns it; when the stream ended without a result it returns the
\* made-up result 'No result received'; when send() or the stream threw it
\* throws; on each of these ways out the session has been closed, and it is
\* not closed before.
C21_Prompt ==
  /\ promptPc # "done" => (~closeCalled /\ promptValue = NoPromptValue)
  /\ promptPc = "done" =>
       /\ closeCalled /\ closed
       /\ promptValue.kind \in {"returned", "threw"}
       /\ promptValue.kind = "returned" =>
            /\ \E i \in 1..Len(writes) : UserWrite(i, PromptSend)
            /\ IF ResultsIn(delivered) # {}
                 THEN /\ promptValue.msg = FirstOf(delivered, ResultsIn(delivered))
                      /\ ResultsIn(delivered) = {Len(delivered)}
                 ELSE /\ promptValue.msg = NoResultReceived
                      /\ result[PromptStream] = "ended"
       /\ promptValue.kind = "threw" =>
            /\ promptValue.error \notin {Null, "ok", "ended"}
            /\ promptValue.error \in {result[PromptSend], result[PromptStream]}
            /\ ResultsIn(delivered) = {}

\* prompt() returned the result message after reading other messages.
C21_Witness ==
  /\ promptPc = "done"
  /\ promptValue.kind = "returned"
  /\ promptValue.msg.type = "result"
  /\ promptValue.msg.id # NoId
  /\ Len(delivered) >= 2

\* The stream() call c parks in this step.
Parks(c) == pc[c] # "parked" /\ pc'[c] = "parked"
\* Nothing is held that a pull could be given at once.
NothingHeld == messageQueue = <<>> /\ queuedInitMessage = NoMsg
\* The pump takes a frame from the transport in this step and its
\* translation is a message for the delivery path.
PumpDelivers ==
  /\ transportQueue # <<>>
  /\ observed' = Append(observed, Head(transportQueue))
  /\ transformMessage(Head(transportQueue)) # NoMsg

\* C22: whenever a waiter is parked the delivery queue is empty and no init
\* message is cached for the stream; a pull parks only when nothing can be
\* handed to it, and an enqueue made while a waiter is parked serves the
\* oldest waiter and leaves the queue alone.
C22_WaitersOnlyWhenEmpty ==
  /\ [](messageResolvers # <<>> => NothingHeld)
  /\ [][\A c \in StreamCalls : Parks(c) => NothingHeld]_vars
  /\ [][(messageResolvers # <<>> /\ PumpDelivers) =>
          /\ messageResolvers' = Tail(messageResolvers)
          /\ NothingHeld']_vars

\* Two waiters are parked after messages were delivered.
C22_Witness ==
  /\ Len(messageResolvers) = 2
  /\ delivered # <<>>
  /\ ~pumpClosed

\* The parked stream() calls are those of the registry, each once.
RegistryIsParked ==
  /\ \A i, j \in 1..Len(messageResolvers) : i # j => messageResolvers[i] # messageResolvers[j]
  /\ \A c \in StreamCalls :
       pc[c] = "parked" <=> \E i \in 1..Len(messageResolvers) : messageResolvers[i] = c

\* C23: each parked waiter is satisfied once, with a message or with the
\* terminal null; when the pump delivers a message while waiters are parked
\* the oldest waiter gets that message, the other waiters stay parked, and
\* the queue and the dropped count are unchanged.
C23_OldestWaiterServed ==
  /\ []RegistryIsParked
  /\ [][(messageResolvers # <<>> /\ PumpDelivers) =>
          LET c == Head(messageResolvers)
          IN /\ pc'[c] = "yielded"
             /\ val'[c].msg = transformMessage(Head(transportQueue))
             /\ delivered' = Append(delivered, val'[c].msg)
             /\ messageResolvers' = Tail(messageResolvers)
             /\ \A d \in StreamCalls \ {c} : pc[d] = "parked" => pc'[d] = "parked"
             /\ messageQueue' = messageQueue
             /\ droppedMessageCount' = droppedMessageCount]_vars
  /\ [][\A c \in StreamCalls :
          (pc[c] = "parked" /\ pc'[c] # "parked") =>
            \/ pc'[c] = "yielded" /\ val'[c].msg # NoMsg
            \/ pc'[c] = "done" /\ result'[c] = "ended"]_vars

\* Of two parked waiters one has been served and the other is still parked.
C23_Witness ==
  /\ Len(delivered) >= 2
  /\ \E c, d \in StreamCalls :
       /\ pc[c] = "yielded" /\ val[c].msg = delivered[Len(delivered)]
       /\ messageResolvers = <<d>>
       /\ NothingHeld

\* The permission requests whose callback was invoked and has not settled.
InFlight ==
  {callbackCalls[i] : i \in 1..Len(callbackCalls)} \
    {callbackResults[k].request : k \in 1..Len(callbackResults)}
\* The pump starts handling a permission request in this step.
HandlingStarts == pumpReq = NoId /\ pumpReq' # NoId

\* C24: at most one permission exchange is in flight: at most one request
\* has its callback pending, an engaged barrier belongs to the request the
\* pump is handling, and the pump starts handling a request only with the
\* barrier clear, so that it never engages an engaged barrier and the
\* release it gets is the one that clears its own engagement.
C24_OneExchange ==
  /\ [](Cardinality(InFlight) <= 1)
  /\ [](InFlight # {} => (pumpPc = "in_callback" /\ InFlight = {pumpReq}))
  /\ [](approvalBarrier # NoId =>
          (HandlingRequest /\ approvalBarrier = pumpReq /\ pumpRelease = "release"))
  /\ [][HandlingStarts =>
          /\ approvalBarrier = NoId /\ InFlight = {}
          /\ approvalBarrier' = pumpReq' /\ pumpRelease' = "release"]_vars

\* The second permission request is being handled after the first was
\* answered.
C24_Witness ==
  /\ Len(callbackCalls) = 2
  /\ pumpPc = "in_callback"
  /\ approvalBarrier = pumpReq
  /\ AnswersTo(callbackCalls[1]) # {}

\* The frames the pump has taken that are permission requests are answered
\* up to position n of observed.
AnsweredBefore(n) ==
  \A i \in ToolRequests : i < n => AnswersTo(observed[i].id) # {}

\* C25: the pump takes no frame while a permission exchange is pending:
\* every frame taken after a can_use_tool request is taken after the
\* control_response for that request was written, and a can_use_tool
\* request is never queued for or delivered to a stream() consumer.
C25_PumpBlocked ==
  /\ [][observed' # observed => (~HandlingRequest /\ InFlight = {})]_vars
  /\ [](\A n \in 1..Len(observed) : AnsweredBefore(n))
  /\ [](\A i \in ToolRequests :
          /\ \A k \in 1..Len(delivered) : delivered[k].id # observed[i].id
          /\ \A k \in 1..Len(Held) : Held[k].id # observed[i].id)

\* A message that followed a permission request was delivered after the
\* request was answered.
C25_Witness ==
  \E i \in ToolRequests : \E k \in 1..Len(delivered) :
    /\ delivered[k].id > observed[i].id
    /\ AnswersTo(observed[i].id) # {}

\* The pump takes an init frame in this step.
PumpTakesInit == PumpDelivers /\ transformMessage(Head(transportQueue)).type = "init"
\* The queue never holds an init message and an init frame leaves the queue
\* and the dropped count as they are.
InitNotQueued ==
  /\ [](\A k \in 1..Len(messageQueue) : messageQueue[k].type # "init")
  /\ [][PumpTakesInit => UNCHANGED <<messageQueue, droppedMessageCount>>]_vars
\* An init frame resolves the init future if one is waiting and is cached
\* for initialize() otherwise.
InitFutureServed ==
  PumpTakesInit =>
    IF initResolver
      THEN ~initResolver' /\ ~initPromise' /\ UNCHANGED pendingInitMessage
      ELSE pendingInitMessage' = transformMessage(Head(transportQueue))

\* C26: an init message never goes through the queue/waiter path: the pump
\* never hands it to a parked stream() waiter and never queues it; it only
\* resolves the init future or is cached for initialize().
C26_InitOffDeliveryPath ==
  /\ InitNotQueued
  /\ [][InitFutureServed]_vars
  /\ [][PumpTakesInit => UNCHANGED <<messageResolvers, delivered>>]_vars

\* C26 (amended): an init message is never queued; the pump resolves the
\* init future with it or caches it for initialize(), and besides hands it
\* to the oldest parked stream() waiter, or, when no waiter is parked,
\* keeps it in the one-message init slot if the slot is free.
C26_InitNeverQueued ==
  /\ InitNotQueued
  /\ [][InitFutureServed]_vars
  /\ [][PumpTakesInit =>
          LET msg == transformMessage(Head(transportQueue))
          IN IF messageResolvers # <<>>
               THEN /\ messageResolvers' = Tail(messageResolvers)
                    /\ val'[Head(messageResolvers)].msg = msg
                    /\ delivered' = Append(delivered, msg)
                    /\ UNCHANGED queuedInitMessage
               ELSE /\ queuedInitMessage' =
                         (IF queuedInitMessage = NoMsg THEN msg ELSE queuedInitMessage)
                    /\ UNCHANGED <<messageResolvers, delivered>>]_vars

\* A stream() consumer holds an init message that arrived after the first
\* one, and no init message is queued.
C26_Witness ==
  /\ Len(delivered) >= 2
  /\ \E c \in StreamCalls :
       /\ pc[c] = "yielded"
       /\ val[c].msg.type = "init"
       /\ val[c].msg.id > 1

\* The calls suspended on the init future.
AwaitingInit == {c \in AllCalls : pc[c] = "await_init" /\ val[c] = NoVal}
\* The call c reaches waitForInitMessage in this step.
AsksForInit(c) == pc[c] = "connecting" /\ pc'[c] = "await_init"

\* C27: at most one unresolved init future exists, shared by the calls that
\* wait for the init message; an init frame resolves it if one is waiting
\* and is cached otherwise, and the next initialize() takes the cached
\* message without waiting; resolver, rejecter and promise are set and
\* cleared together.
C27_OneInitFuture ==
  /\ [](initPromise = initResolver /\ initResolver = initRejecter)
  /\ [](AwaitingInit # {} => initPromise)
  /\ [][PumpTakesInit =>
          LET msg == transformMessage(Head(transportQueue))
          IN IF initResolver
               THEN /\ \A c \in AwaitingInit : val'[c] = Val(msg, Null, NoId)
                    /\ ~initPromise' /\ ~initResolver' /\ ~initRejecter'
                    /\ UNCHANGED pendingInitMessage
               ELSE /\ pendingInitMessage' = msg
                    /\ UNCHANGED <<initPromise, initResolver, initRejecter>>]_vars
  /\ [][\A c \in AllCalls :
          (AsksForInit(c) /\ ~closed) =>
            IF pendingInitMessage # NoMsg
              THEN /\ val'[c] = Val(pendingInitMessage, Null, NoId)
                   /\ pendingInitMessage' = NoMsg
                   /\ UNCHANGED <<initPromise, initResolver, initRejecter>>
              ELSE /\ val'[c] = NoVal
                   /\ initPromise' /\ initResolver' /\ initRejecter']_vars

\* Two calls that waited on the one init future were resolved with the same
\* init message.
C27_Witness ==
  \E c, d \in AllCalls :
    /\ c # d
    /\ pc[c] = "await_init" /\ pc[d] = "await_init"
    /\ val[c].msg.type = "init"
    /\ val[d] = val[c]
    /\ ~initPromise

\* The three states of the pump.
PumpState ==
  IF ~pumpRunning THEN "not_started" ELSE IF ~pumpClosed THEN "running" ELSE "closed"

\* C28: the pump goes not_started -> running -> closed and stays closed;
\* after the closure no frame is taken, nothing is queued or handed to a
\* waiter, no waiter is parked, and a pull with nothing left returns the
\* terminal signal or throws the stored error.
C28_PumpClosedIsTerminal ==
  /\ [](PumpState = "not_started" <=> pumpPc = "not_started")
  /\ [](PumpState = "closed" <=> pumpPc = "closed")
  /\ [][PumpState' # PumpState =>
          \/ PumpState = "not_started" /\ PumpState' = "running"
          \/ PumpState = "running" /\ PumpState' = "closed"]_vars
  /\ [](pumpClosed => messageResolvers = <<>>)
  /\ [][pumpClosed =>
          /\ observed' = observed
          /\ Len(messageQueue') <= Len(messageQueue)
          /\ queuedInitMessage' \in {queuedInitMessage, NoMsg}
          /\ \A c \in StreamCalls : ~Parks(c)
          /\ \A c \in StreamCalls :
               (Pulls(c) /\ NothingHeld) =>
                 /\ pc'[c] = "done"
                 /\ result'[c] = (IF pumpError # Null THEN pumpError ELSE "ended")]_vars

\* After the pump closed a pull found nothing left and got the terminal
\* signal, and a further initialize() found the pump already started.
C28_Witness ==
  /\ pumpClosed
  /\ \E c \in StreamCalls : pc[c] = "done" /\ result[c] = "ended" /\ NothingHeld
  /\ \E c \in InitCalls : pc[c] = "done" /\ result[c] = ErrNotConnected

InitializeWrites ==
  {i \in 1..Len(writes) :
     writes[i].type = "control_request" /\ writes[i].subtype = "initialize"}

\* C30 (the part on the requests written): however initialize() and lazily
\* initializing calls interleave on a fresh session, at most one
\* `initialize` control request is written to the transport.
C30_OneInitializeRequest == Cardinality(InitializeWrites) <= 1

\* The pump hands a message that is not an init message to enqueue in this
\* step.
PumpEnqueues == PumpDelivers /\ transformMessage(Head(transportQueue)).type # "init"
\* The number of messages evicted in this step.
Evicted ==
  IF PumpEnqueues /\ messageResolvers = <<>>
    THEN Len(messageQueue) + 1 - Len(messageQueue')
    ELSE 0

\* C31: with a capacity of 0 or less nothing is ever dropped: the dropped
\* count stays 0 and a message enqueued while no waiter is parked stays in
\* the queue until a pull takes it; for every capacity the dropped count
\* never decreases and grows by one per evicted message.
C31_EvictionDisabled ==
  /\ [](maxQueueSize <= 0 => (droppedMessageCount = 0 /\ warns = <<>>))
  /\ [][maxQueueSize <= 0 =>
          \/ messageQueue' = messageQueue
          \/ /\ PumpEnqueues /\ messageResolvers = <<>>
             /\ messageQueue' = Append(messageQueue, transformMessage(Head(transportQueue)))
          \/ /\ messageQueue # <<>>
             /\ messageQueue' = Tail(messageQueue)
             /\ delivered' = Append(delivered, Head(messageQueue))]_vars
  /\ [][/\ droppedMessageCount' = droppedMessageCount + Evicted
        /\ Evicted >= 0]_vars

\* With eviction disabled two messages wait in the queue after the init
\* message was pulled.
C31_Witness ==
  /\ maxQueueSize <= 0
  /\ Len(messageQueue) >= 2
  /\ delivered # <<>>

\* The pump takes a frame that is not a can_use_tool request and that
\* transformMessage maps to null.
PumpSkips ==
  /\ transportQueue # <<>>
  /\ observed' = Append(observed, Head(transportQueue))
  /\ transformMessage(Head(transportQueue)) = NoMsg
  /\ ~(Head(transportQueue).type = "control_request"
       /\ Head(transportQueue).request
       /\ Head(transportQueue).subtype = "can_use_tool")

\* C32: a frame that the translation maps to nothing is dropped silently:
\* the pump keeps running, no error is stored, nothing is written, and the
\* queue, the waiters, the dropped count and the init state stay as they are.
C32_SkippedSilently ==
  [][PumpSkips =>
       /\ pumpPc' = "ready"
       /\ ~pumpClosed'
       /\ UNCHANGED <<pumpError, writes, messageQueue, messageResolvers,
                      droppedMessageCount, queuedInitMessage, pendingInitMessage,
                      initPromise, initResolver, initRejecter, initialized, identity>>]_vars

\* The same for the frames that carry what the dispatch reads: every frame
\* but a control_request without a `request` object.
C32_SkippedSilentlyWhenWellFormed ==
  [][(PumpSkips /\ ~(Head(transportQueue).type = "control_request"
                     /\ ~Head(transportQueue).request)) =>
       /\ pumpPc' = "ready"
       /\ ~pumpClosed'
       /\ UNCHANGED <<pumpError, writes, messageQueue, messageResolvers,
                      droppedMessageCount, queuedInitMessage, pendingInitMessage,
                      initPromise, initResolver, initRejecter, initialized, identity>>]_vars

\* The frame a delivered message was translated from.
FrameOf(m) == CHOOSE f \in {observed[i] : i \in 1..Len(observed)} : f.id = m.id
\* Stream call c holds a result message it was given.
HoldsResult(c) == pc[c] = "yielded" /\ val[c].msg.type = "result"

\* C33: a result frame is translated to a result message whose success is
\* true exactly when the subtype is "success" and whose error is the subtype
\* exactly when it is not; the stream() call that yields a result, successful
\* or not, pulls nothing more and returns.
C33_ResultEndsStream ==
  /\ [](\A i \in 1..Len(observed) :
          observed[i].type = "result" =>
            LET m == transformMessage(observed[i])
            IN /\ m.type = "result"
               /\ m.success <=> observed[i].subtype = "success"
               /\ observed[i].subtype # "success" <=> m.error = observed[i].subtype
               /\ observed[i].subtype = "success" <=> m.error = NoOption)
  /\ [](\A i \in 1..Len(delivered) :
          delivered[i].type = "result" =>
            /\ FrameOf(delivered[i]).type = "result"
            /\ delivered[i].success <=> FrameOf(delivered[i]).subtype = "success"
            /\ ~delivered[i].success <=> delivered[i].error = FrameOf(delivered[i]).subtype)
  /\ [][\A c \in StreamCalls :
          HoldsResult(c) =>
            \/ pc'[c] = pc[c] /\ val'[c] = val[c]
            \/ /\ pc'[c] = "done" /\ result'[c] = "result"
               /\ UNCHANGED <<messageQueue, messageResolvers, queuedInitMessage, delivered>>]_vars
  /\ [][\A c \in StreamCalls : pc[c] = "done" => pc'[c] = "done"]_vars

\* One stream() call returned after a failed result and the other after a
\* successful one.
C33_Witness ==
  /\ \A c \in {"r1", "r2"} : pc[c] = "done" /\ result[c] = "result"
  /\ \E i, j \in 1..Len(delivered) :
       /\ delivered[i].type = "result" /\ delivered[i].success
       /\ delivered[j].type = "result" /\ ~delivered[j].success
       /\ delivered[j].error = "error_during_execution"

\* The argument strings that are valid JSON.
ValidJson == {"{\"path\":\"a\"}", "{ }", "{}"}
\* The frame is a tool_call_message.
IsToolCallFrame(f) == f.type = "message" /\ f.message_type = "tool_call_message"
\* The message is the translation of tool call t of frame f.
MadeOf(m, f, t) ==
  /\ m.type = "tool_call"
  /\ m.id = f.id
  /\ m.toolCallId = t.tool_call_id
  /\ m.toolName = t.name
  /\ t.arguments \notin ValidJson => m.toolInput = {<<"raw", t.arguments>>}
  /\ t.arguments \in ValidJson => \A kv \in m.toolInput : kv[1] # "raw"
\* What the claim says the translation of tool_call_message f is.
ToolCallTranslated(f) ==
  LET m == transformMessage(f)
  IN IF f.tool_calls.given /\ f.tool_calls.items # <<>> /\ f.tool_calls.items[1].given
       THEN MadeOf(m, f, f.tool_calls.items[1])
     ELSE IF f.tool_call.given
       THEN MadeOf(m, f, f.tool_call)
     ELSE m = NoMsg

\* C34: a tool_call_message is translated from the first element of
\* tool_calls when there is one and from tool_call otherwise, to nothing when
\* there is neither; an argument string that is not valid JSON gives
\* toolInput {raw: the string}, the translation does not fail and the message
\* is delivered like any other.
C34_ToolCallTranslation ==
  /\ [](\A i \in 1..Len(observed) :
          IsToolCallFrame(observed[i]) => ToolCallTranslated(observed[i]))
  /\ [](\A i \in 1..Len(delivered) :
          delivered[i].type = "tool_call" =>
            /\ IsToolCallFrame(FrameOf(delivered[i]))
            /\ ToolCallTranslated(FrameOf(delivered[i]))
            /\ delivered[i] = transformMessage(FrameOf(delivered[i])))
  /\ [][(PumpDelivers /\ IsToolCallFrame(Head(transportQueue))) =>
          /\ pumpPc' = "ready" /\ pumpError' = pumpError
          /\ IF messageResolvers = <<>>
               THEN messageQueue' = Append(messageQueue, transformMessage(Head(transportQueue)))
               ELSE delivered' = Append(delivered, transformMessage(Head(transportQueue)))]_vars
  /\ [](pumpError = Null)

\* The consumer received, translated from the singular field of a frame with
\* an empty tool_calls list, a tool call whose arguments were not JSON, with
\* the raw string as its input.
C34_Witness ==
  \E i \in 1..Len(delivered) :
    /\ delivered[i].toolInput = {<<"raw", "{\"path\":">>}
    /\ delivered[i].toolName = "Edit"
    /\ FrameOf(delivered[i]).tool_calls = ToolCalls(<<>>)

\* The three parts of the delivery state.
DeliveryState == <<messageQueue, messageResolvers, droppedMessageCount>>
\* A step of send() or abort(), or one that resumes them.
SendOrAbortStep == \E c \in SendCalls \cup AbortCalls : pc'[c] # pc[c]
\* A step of close().
CloseStep == closeCalled' /\ ~closeCalled
\* A step of the permission handling: the request is taken, the callback
\* settles, or the response was written and the barrier is released.
PermissionStep == HandlingStarts \/ (HandlingRequest /\ pumpPc' # pumpPc)
\* The pump hands a message to enqueueMessage or queueInitMessage, or
\* terminates.
PumpEnqueueOrEnd == PumpDelivers \/ (pumpClosed' /\ ~pumpClosed)
\* A stream() call pulls.
PullStep == \E c \in StreamCalls : Pulls(c)

\* C35: the delivery queue, the waiter registry and the dropped count are
\* changed only by the pump's enqueue and termination steps and by the pulls
\* of stream(); send(), abort(), close() and the permission handling leave
\* all three as they are.
C35_DeliveryStateOwners ==
  /\ [][(SendOrAbortStep \/ CloseStep \/ PermissionStep) => UNCHANGED DeliveryState]_vars
  /\ [][DeliveryState' # DeliveryState => (PumpEnqueueOrEnd \/ PullStep)]_vars

\* A message is queued, and a send(), an abort(), a permission exchange and
\* close() have all taken place.
C35_Witness ==
  /\ messageQueue # <<>>
  /\ closeCalled
  /\ pc["s1"] = "done" /\ pc["a1"] = "done"
  /\ Responses # {}

\* The messages the pump has handed to enqueueMessage so far.
Enqueued == NonInit(Translated(observed))

\* C36: the number of messages other than init messages that the pump has
\* handed to enqueue equals the number delivered to pulls plus the number in
\* the queue plus the dropped count.
C36_Conservation ==
  Len(Enqueued) = Len(NonInit(delivered)) + Len(messageQueue) + droppedMessageCount

\* A message was evicted and a later one was delivered to the consumer.
C36_Witness ==
  /\ droppedMessageCount > 0
  /\ NonInit(delivered) # <<>>

\* The pump attempts to write the control_response of the request it is
\* handling in this step.
ResponseAttempt == pumpPc # "written" /\ pumpPc' = "written"
\* The control responses written so far answer distinct requests, in the
\* order in which the requests arrived.
ResponsesInRequestOrder ==
  /\ \A i \in Responses : \E a \in ToolRequests : ResponseWrite(i, observed[a].id)
  /\ \A i, j \in Responses :
       i < j => \E a, b \in ToolRequests :
                  a < b /\ ResponseWrite(i, observed[a].id) /\ ResponseWrite(j, observed[b].id)

\* C37: every can_use_tool request the pump handles gives exactly one
\* attempt to write a control_response, which carries subtype "success" and
\* the request_id of the request; the responses are written in the order in
\* which the requests arrived.
C37_OneResponsePerRequest ==
  /\ [][HandlingStarts =>
          /\ Head(transportQueue).type = "control_request"
          /\ pumpReq' = Head(transportQueue).id
          /\ pumpPc' \in {"in_callback", "written"}
          /\ pumpPc' = "written" <=> ResponseAttempt]_vars
  /\ [][pumpPc = "in_callback" =>
          /\ pumpPc' \in {"in_callback", "written"}
          /\ pumpReq' = pumpReq]_vars
  /\ [][pumpPc = "written" =>
          \/ pumpPc' = "written" /\ pumpReq' = pumpReq
          \/ pumpPc' \in {"ready", "failing"} /\ pumpReq' = NoId /\ writes' = writes]_vars
  /\ [][ResponseAttempt =>
          IF CanWrite
            THEN /\ writes' = Append(writes, writes'[Len(writes')])
                 /\ writes'[Len(writes')].type = "control_response"
                 /\ writes'[Len(writes')].subtype = "success"
                 /\ writes'[Len(writes')].request_id = ToString(pumpReq')
                 /\ pumpWriteOk'
            ELSE writes' = writes /\ ~pumpWriteOk']_vars
  /\ [][(writes' # writes /\ ~ResponseAttempt) =>
          writes'[Len(writes')].type # "control_response"]_vars
  /\ [](\A a \in ToolRequests : Cardinality(AnswersTo(observed[a].id)) <= 1)
  /\ [](\A i \in Responses : writes[i].subtype = "success")
  /\ []ResponsesInRequestOrder

\* Two requests were answered, one of them with a denial, and the attempt
\* for a third one failed.
C37_Witness ==
  /\ Cardinality(Responses) = 2
  /\ \E i \in Responses : writes[i].response.behavior = "deny"
  /\ Cardinality(ToolRequests) = 3
  /\ pumpPc = "written" /\ ~pumpWriteOk

\* What a pull made after the pump's termination does: the cached init
\* message first, then the head of the queue, and with nothing left the
\* stored error or the terminal signal.
PullAfterTermination(c) ==
  IF queuedInitMessage # NoMsg
    THEN /\ delivered' = Append(delivered, queuedInitMessage)
         /\ val'[c].msg = queuedInitMessage
         /\ messageQueue' = messageQueue
  ELSE IF messageQueue # <<>>
    THEN /\ delivered' = Append(delivered, Head(messageQueue))
         /\ val'[c].msg = Head(messageQueue)
         /\ messageQueue' = Tail(messageQueue)
  ELSE /\ pc'[c] = "done"
       /\ result'[c] = (IF pumpError # Null THEN pumpError ELSE "ended")
       /\ delivered' = delivered

\* C38: the messages held when the pump closes or fails are not lost: the
\* pulls made after the termination return the cached init message and the
\* queued messages in order, and only with nothing left does a pull throw the
\* stored error or return the terminal signal.
C38_DrainedAfterTermination ==
  /\ [][\A c \in StreamCalls : (pumpClosed /\ Pulls(c)) => PullAfterTermination(c)]_vars
  /\ [][pumpClosed =>
          /\ droppedMessageCount' = droppedMessageCount
          /\ \/ UNCHANGED <<messageQueue, queuedInitMessage>>
             \/ \E c \in StreamCalls : Pulls(c)]_vars
  /\ [](\A c \in StreamCalls :
          (pc[c] = "done" /\ (result[c] = "ended" \/ (pumpError # Null /\ result[c] = pumpError)))
            => NothingHeld)

\* The pump failed, and the consumer received the init message and a queued
\* message before its pull threw the stored error.
C38_Witness ==
  /\ pumpClosed /\ pumpError # Null
  /\ pc["r1"] = "done" /\ result["r1"] = pumpError
  /\ pc["r2"] = "idle"
  /\ Len(delivered) >= 2

\* The finally block of handleCanUseTool runs after a write that failed.
ReleaseAfterFailedWrite == pumpPc = "written" /\ ~pumpWriteOk /\ pumpPc' # "written"
\* An initialize() whose init future is pending.
PendingInitialize(c) == pc[c] = "await_init" /\ val[c] = NoVal /\ initRejecter

\* C39: when the write of a control_response fails the barrier is released
\* all the same, the failure ends the pump and is stored as the pump error,
\* every parked waiter gets the terminal signal and a pending initialize() is
\* rejected; no frame is taken after that request.
C39_FailedResponseWrite ==
  /\ [][ReleaseAfterFailedWrite =>
          /\ approvalBarrier' = NoId /\ approvalBarrierResolve' = NoId
          /\ \A c \in AllCalls : pc[c] = "blocked" => pc'[c] = "ready"
          /\ pumpPc' = "failing"]_vars
  /\ [][pumpPc = "failing" =>
          \/ pumpPc' = "failing" /\ observed' = observed /\ UNCHANGED <<pumpError, pumpClosed>>
          \/ /\ pumpPc' = "closed"
             /\ pumpError' = ErrNotConnected
             /\ pumpClosed'
             /\ messageResolvers' = <<>>
             /\ \A c \in AllCalls :
                  pc[c] = "parked" => (pc'[c] = "done" /\ result'[c] = "ended")
             /\ \A c \in AllCalls :
                  PendingInitialize(c) => val'[c].err = ErrNoInit
             /\ ~initRejecter' /\ ~initResolver' /\ ~initPromise'
             /\ UNCHANGED <<observed, transportQueue, messageQueue>>]_vars
  /\ [][pumpPc = "closed" => (pumpPc' = "closed" /\ observed' = observed)]_vars

\* The pump failed on a response write with a waiter parked, which got the
\* terminal signal, and with a frame behind the request, which stays where
\* it is.
C39_Witness ==
  /\ pumpPc = "closed" /\ pumpError = ErrNotConnected
  /\ transportQueue # <<>>
  /\ \E c \in StreamCalls : pc[c] = "done" /\ result[c] = "ended"
  /\ approvalBarrier = NoId

\* The call reaches its transport.write in this step: send() and abort()
\* after the barrier wait, initialize() after connect().
ReachesWrite(c) ==
  \/ c \in SendCalls \cup AbortCalls /\ pc[c] = "ready" /\ pc'[c] # "ready"
  \/ pc[c] = "connecting" /\ pc'[c] = "await_init"
\* The call rejects with the transport's error, at once or in its next step.
RejectsNotConnected(c) ==
  \/ pc'[c] = "done" /\ result'[c] = ErrNotConnected
  \/ pc'[c] = "await_init" /\ val'[c].err = ErrNotConnected

\* C40: after close() nothing is written to the transport: a send(), an
\* abort() or an initialize() that comes to its write after close() rejects,
\* and the permission exchange pending at close() does not deliver its
\* control_response.
C40_NoWriteAfterClose ==
  /\ [][closeCalled => writes' = writes]_vars
  /\ [](closeCalled => closed)
  /\ [][\A c \in AllCalls :
          (closeCalled /\ ReachesWrite(c)) => RejectsNotConnected(c)]_vars
  /\ [][\A c \in AllCalls :
          (pc[c] = "await_init" /\ val[c].err # Null /\ pc'[c] # pc[c]) =>
             (pc'[c] = "done" /\ result'[c] = val[c].err)]_vars
  /\ [][\A c \in AllCalls :
          (closeCalled /\ pc[c] = "idle" /\ pc'[c] = "done") =>
             result'[c] = ErrAlreadyInitialized]_vars
  /\ [][(closeCalled /\ ResponseAttempt) => (~pumpWriteOk' /\ Responses' = Responses)]_vars

\* After close() a send() and an abort() have rejected with the transport's
\* error, and the request whose handling was pending at close() has no
\* response: the attempt to write it failed the pump.
C40_Witness ==
  /\ closeCalled
  /\ \A c \in {"s1", "a1"} : pc[c] = "done" /\ result[c] = ErrNotConnected
  /\ pumpPc = "closed" /\ pumpError = ErrNotConnected
  /\ Cardinality(Responses) < Cardinality(ToolRequests)

====
